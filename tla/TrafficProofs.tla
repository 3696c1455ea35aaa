---------------------------- MODULE TrafficProofs ---------------------------
(***************************************************************************)
(* What passes between the players of a session: datagrams, chat, voices,  *)
(* bites and bangs.                                                        *)
(*                                                                         *)
(* Relay: what the burst limit guarantees, for every burst and every       *)
(* window, and that the relay of voices keeps it: whatever else is under   *)
(* way, each of its steps is one of the meter's or leaves the meter alone. *)
(* And that what a scene shows is what another meant, rounded twice.       *)
(* Chat: that routing, for any number of connections, lines and lost       *)
(* connections, is as good as answering each line at one moment.           *)
(* Voice: for every length of the pre-roll, of the hold and of the queues, *)
(* the gate sends whole utterances, and the mix has no holes.              *)
(* Meadow: that the ground of every process stays sound, and a bang is     *)
(* felt once, for any number of players, devices and bangs.                *)
(***************************************************************************)
EXTENDS Relay, Chat, Voice, Meadow, NamesProofs, SequenceTheorems, TLAPS

-----------------------------------------------------------------------------
(* Relay. *)


\* How many of the messages that got through belong to the current count.
Current == IF count < Burst THEN count ELSE Burst

\* The last `Current` messages were read since the count began, all others
\* before, and of those all but one burst a whole window before.
Inv ==
  /\ TypeOK
  /\ Len(passed) >= Current
  /\ \A i \in 1 .. Len(passed) : passed[i] <= now
  /\ \A i \in 1 .. Len(passed) :
       i > Len(passed) - Current => passed[i] >= window
  /\ \A i \in 1 .. Len(passed) :
       i <= Len(passed) - Current => passed[i] <= window
  /\ \A i \in 1 .. Len(passed) :
       i <= Len(passed) - Current - Burst => passed[i] + Window <= window
  /\ AtMostTwoBursts

LEMMA InitInv == Init => Inv
BY LimitAssumption DEF Init, Inv, TypeOK, Current, AtMostTwoBursts

LEMMA TickInv == Inv /\ Tick => Inv'
<1> SUFFICES ASSUME Inv, Tick PROVE Inv'
  OBVIOUS
<1>1. UNCHANGED <<window, count, passed>> /\ now' = now + 1
  BY DEF Tick
<1>2. TypeOK'
  BY <1>1 DEF Inv, TypeOK
<1>3. \A i \in 1 .. Len(passed') : passed'[i] <= now'
  BY <1>1 DEF Inv, TypeOK
<1>4. QED
  BY <1>1, <1>2, <1>3 DEF Inv, Current, AtMostTwoBursts

LEMMA RefuseInv == Inv /\ Refuse => Inv'
<1> SUFFICES ASSUME Inv, Refuse PROVE Inv'
  OBVIOUS
<1>1. UNCHANGED <<now, window, passed>> /\ count' = count + 1 /\ count >= Burst
  BY LimitAssumption DEF Inv, TypeOK, Refuse, Count, WithinBurst
<1>2. Current' = Current
  BY <1>1, LimitAssumption DEF Inv, TypeOK, Current
<1>3. QED
  BY <1>1, <1>2 DEF Inv, TypeOK, AtMostTwoBursts

LEMMA PassInv == Inv /\ Pass => Inv'
<1> SUFFICES ASSUME Inv, Pass PROVE Inv'
  OBVIOUS
<1> DEFINE n == Len(passed)
<1>a. Burst \in Nat \ {0} /\ Window \in Nat \ {0}
  BY LimitAssumption
<1>b. now \in Nat /\ window \in Nat /\ count \in Nat /\ window <= now
  BY DEF Inv, TypeOK
<1>c. passed \in Seq(Nat) /\ n \in Nat /\ passed' = Append(passed, now) /\ now' = now
  BY DEF Inv, TypeOK, Pass
<1>d. /\ Len(passed') = n + 1
      /\ passed' \in Seq(Nat)
      /\ passed'[n + 1] = now
      /\ \A i \in 1 .. n : passed'[i] = passed[i] /\ passed[i] \in Nat
  BY <1>b, <1>c
<1>e. Current \in Nat /\ Current <= Burst /\ Current <= n /\ Current <= count
  BY <1>a, <1>b DEF Inv, Current
<1>1. CASE now - window >= Window
  <2>1. window' = now /\ count' = 1 /\ Current' = 1
    BY <1>1, <1>a DEF Pass, Count, Current
  <2>2. \A i \in 1 .. n : i <= n - Burst => passed[i] + Window <= now
    <3> SUFFICES ASSUME NEW i \in 1 .. n, i <= n - Burst
                 PROVE  passed[i] + Window <= now
      OBVIOUS
    <3>1. i <= n - Current
      BY <1>a, <1>c, <1>e
    <3>2. passed[i] <= window
      BY <3>1 DEF Inv
    <3>3. QED
      BY <1>1, <1>a, <1>b, <1>d, <3>2
  <2>3. TypeOK'
    BY <2>1, <1>b, <1>c, <1>d DEF TypeOK
  <2>4. \A i \in 1 .. n + 1 : passed'[i] <= now
    BY <1>b, <1>c, <1>d DEF Inv
  <2>5. \A i \in 1 .. n + 1 : i > n => passed'[i] >= now
    BY <1>b, <1>c, <1>d
  <2>6. \A i \in 1 .. n + 1 : i <= n - Burst => passed'[i] + Window <= now
    BY <1>a, <1>c, <1>d, <2>2
  <2>7. AtMostTwoBursts'
    <3> SUFFICES ASSUME NEW i \in 1 .. n + 1, i > 2 * Burst
                 PROVE  passed'[i] - passed'[i - 2 * Burst] >= Window
      BY <1>d DEF AtMostTwoBursts
    <3>1. CASE i = n + 1
      <4>1. i - 2 * Burst \in 1 .. n /\ i - 2 * Burst <= n - Burst
        BY <1>a, <1>c, <3>1
      <4>2. passed[i - 2 * Burst] + Window <= now
        BY <4>1, <2>2
      <4>3. /\ passed'[i] = now
            /\ passed'[i - 2 * Burst] = passed[i - 2 * Burst]
            /\ passed[i - 2 * Burst] \in Nat
        BY <1>d, <3>1, <4>1
      <4>4. QED
        BY <1>a, <1>b, <4>2, <4>3
    <3>2. CASE i # n + 1
      <4>1. i \in 1 .. n /\ i - 2 * Burst \in 1 .. n
        BY <1>a, <1>c, <3>2
      <4>2. passed[i] - passed[i - 2 * Burst] >= Window
        BY <4>1, <1>c DEF Inv, AtMostTwoBursts
      <4>3. QED
        BY <4>1, <4>2, <1>d
    <3>3. QED
      BY <3>1, <3>2
  <2>8. \A i \in 1 .. n + 1 : i <= n => passed'[i] <= now
    BY <2>4
  <2>9. Len(passed') - Current' = n /\ Len(passed') >= Current'
    BY <1>c, <1>d, <2>1
  <2>10. QED
    BY <1>c, <1>d, <2>1, <2>3, <2>4, <2>5, <2>6, <2>7, <2>8, <2>9 DEF Inv
<1>2. CASE ~(now - window >= Window)
  <2>1. window' = window /\ count' = count + 1 /\ count + 1 <= Burst
    BY <1>2 DEF Pass, Count, WithinBurst
  <2>2. Current = count /\ Current' = count + 1
    BY <2>1, <1>a, <1>b DEF Current
  <2>3. TypeOK'
    BY <2>1, <1>b, <1>c, <1>d DEF TypeOK
  <2>4. \A i \in 1 .. n + 1 : passed'[i] <= now
    BY <1>b, <1>c, <1>d DEF Inv
  <2>5. \A i \in 1 .. n + 1 : i > n - count => passed'[i] >= window
    BY <1>b, <1>c, <1>d, <2>2 DEF Inv
  <2>6. \A i \in 1 .. n + 1 : i <= n - count => passed'[i] <= window
    BY <1>b, <1>c, <1>d, <2>2 DEF Inv
  <2>7. \A i \in 1 .. n + 1 :
          i <= n - count - Burst => passed'[i] + Window <= window
    BY <1>a, <1>b, <1>c, <1>d, <2>2 DEF Inv
  <2>8. AtMostTwoBursts'
    <3> SUFFICES ASSUME NEW i \in 1 .. n + 1, i > 2 * Burst
                 PROVE  passed'[i] - passed'[i - 2 * Burst] >= Window
      BY <1>d DEF AtMostTwoBursts
    <3>1. CASE i = n + 1
      <4>1. i - 2 * Burst \in 1 .. n /\ i - 2 * Burst <= n - Current - Burst
        BY <1>a, <1>b, <1>c, <2>1, <2>2, <3>1
      <4>2. passed[i - 2 * Burst] + Window <= window
        BY <4>1 DEF Inv
      <4>3. /\ passed'[i] = now
            /\ passed'[i - 2 * Burst] = passed[i - 2 * Burst]
            /\ passed[i - 2 * Burst] \in Nat
        BY <1>d, <3>1, <4>1
      <4>4. QED
        BY <1>a, <1>b, <4>2, <4>3
    <3>2. CASE i # n + 1
      <4>1. i \in 1 .. n /\ i - 2 * Burst \in 1 .. n
        BY <1>a, <1>c, <3>2
      <4>2. passed[i] - passed[i - 2 * Burst] >= Window
        BY <4>1, <1>c DEF Inv, AtMostTwoBursts
      <4>3. QED
        BY <4>1, <4>2, <1>d
    <3>3. QED
      BY <3>1, <3>2
  <2>9. Len(passed') - Current' = n - count /\ Len(passed') >= Current'
    BY <1>b, <1>c, <1>d, <1>e, <2>2
  <2>10. QED
    BY <1>c, <1>d, <2>1, <2>3, <2>4, <2>5, <2>6, <2>7, <2>8, <2>9 DEF Inv
<1>3. QED
  BY <1>1, <1>2

LEMMA InvAlways == Spec => []Inv
<1>1. Inv /\ UNCHANGED vars => Inv'
  BY DEF Inv, TypeOK, Current, AtMostTwoBursts, vars
<1>2. Inv /\ [Next]_vars => Inv'
  BY <1>1, TickInv, RefuseInv, PassInv DEF Next
<1>3. QED
  BY InitInv, <1>2, PTL DEF Spec

-----------------------------------------------------------------------------

\* Type correctness of the meter.
THEOREM MeterTypeCorrect == Spec => []TypeOK
<1>1. Inv => TypeOK
  BY DEF Inv
<1>2. QED
  BY <1>1, InvAlways, PTL

\* `within_burst` never lets more than two bursts through in less than a window.
THEOREM TwoBurstsAtMost == Spec => []AtMostTwoBursts
<1>1. Inv => AtMostTwoBursts
  BY DEF Inv
<1>2. QED
  BY <1>1, InvAlways, PTL

\* `within_burst` refuses only who got a whole burst through within a window.
THEOREM RefusalsAreFair == Spec => RefusalsAreEarned
<1> DEFINE Earned == /\ Len(passed) >= Burst
                     /\ now - passed[Len(passed) - Burst + 1] < Window
<1>1. Inv /\ [Next]_vars => [count' # count /\ count' > Burst => Earned]_vars
  <2> SUFFICES ASSUME Inv, Next, count' # count, count' > Burst PROVE Earned
    OBVIOUS
  <2>1. now - window < Window /\ count >= Burst
    BY LimitAssumption DEF Inv, TypeOK, Next, Tick, Pass, Refuse, Count, WithinBurst
  <2>2. Current = Burst /\ Len(passed) >= Burst
    BY <2>1, LimitAssumption DEF Inv, TypeOK, Current
  <2>3. Len(passed) - Burst + 1 \in 1 .. Len(passed)
    BY <2>2, LimitAssumption DEF Inv, TypeOK
  <2>4. passed[Len(passed) - Burst + 1] >= window
    BY <2>2, <2>3, LimitAssumption DEF Inv, TypeOK
  <2>5. QED
    BY <2>1, <2>2, <2>3, <2>4, LimitAssumption DEF Inv, TypeOK
<1>2. QED
  BY <1>1, InvAlways, PTL DEF Spec, RefusalsAreEarned

-----------------------------------------------------------------------------

\* The relay task lets a voice through, drops it, or leaves its meter alone.
THEOREM RelayMeters == RelaySpec => Spec
<1>1. RelayInit => Init
  BY DEF RelayInit
<1>2. [RelayNext]_<<vars, media>> => [Next]_vars
  <2> SUFFICES ASSUME [RelayNext]_<<vars, media>> PROVE Next \/ UNCHANGED vars
    OBVIOUS
  <2>1. CASE RelayVoice
    BY <2>1 DEF RelayVoice, Next
  <2>2. CASE DropVoice
    BY <2>2 DEF DropVoice, Next
  <2>3. CASE Tick /\ UNCHANGED media
    BY <2>3 DEF Next
  <2>4. CASE ClientPublish \/ ClientPublishVoice
    BY <2>4 DEF ClientPublish, ClientPublishVoice, Quiet
  <2>5. CASE HostPublish \/ HostPublishVoice \/ HostPublishWorld \/ HostPublishMods
    BY <2>5 DEF HostPublish, HostPublishVoice, HostPublishWorld, HostPublishMods, Quiet
  <2>6. CASE RelayPeer \/ GuestReads \/ Lost
    BY <2>6 DEF RelayPeer, GuestReads, Lost
  <2>7. CASE UNCHANGED <<vars, media>>
    BY <2>7
  <2>8. QED
    BY <2>1, <2>2, <2>3, <2>4, <2>5, <2>6, <2>7 DEF RelayNext
<1>3. QED
  BY <1>1, <1>2, PTL DEF RelaySpec, Spec

\* The relay never passes more than two bursts of a talker's voice on in less
\* than a window.
THEOREM VoicesComeInBursts == RelaySpec => []AtMostTwoBursts
BY RelayMeters, TwoBurstsAtMost, PTL

\* A voice is dropped only if its talker has just had a whole burst relayed.
THEOREM DropsAreEarned == RelaySpec => RefusalsAreEarned
BY RelayMeters, RefusalsAreFair, PTL

(* What is shown, is what was meant. *)

\* The grids of the wire: how fine, and how far.
Grains == {2, 4, 10, 100, 1000}
Spans(lo, hi) == (-32768 <= lo /\ lo <= 0) /\ (127 <= hi /\ hi <= 65535)
IsGrid(grid) ==
  \E per \in Grains, lo \in Int, hi \in Int :
    /\ Spans(lo, hi)
    /\ grid.per = per /\ grid.lo = lo /\ grid.hi = hi

\* Rounding moves a number by half a step at most, on every step there is.
LEMMA RoundNear ==
  ASSUME NEW m \in Int, NEW per \in Grains
  PROVE  /\ Round(m, per) \in Int
         /\ 2 * Distance(Round(m, per) * per, m) <= per
<1>1. CASE m >= 0
  <2>1. Round(m, per) = (m + per \div 2) \div per
    BY <1>1 DEF Round
  <2>2. CASE per = 2
    BY <1>1, <2>1, <2>2 DEF Distance
  <2>3. CASE per = 4
    BY <1>1, <2>1, <2>3 DEF Distance
  <2>4. CASE per = 10
    BY <1>1, <2>1, <2>4 DEF Distance
  <2>5. CASE per = 100
    BY <1>1, <2>1, <2>5 DEF Distance
  <2>6. CASE per = 1000
    BY <1>1, <2>1, <2>6 DEF Distance
  <2> QED
    BY <2>2, <2>3, <2>4, <2>5, <2>6 DEF Grains
<1>2. CASE m < 0
  <2> DEFINE n == (per \div 2 - m) \div per
  <2>1. Round(m, per) = -n
    BY <1>2 DEF Round
  <2>2. CASE per = 2
    BY <1>2, <2>1, <2>2 DEF Distance
  <2>3. CASE per = 4
    BY <1>2, <2>1, <2>3 DEF Distance
  <2>4. CASE per = 10
    BY <1>2, <2>1, <2>4 DEF Distance
  <2>5. CASE per = 100
    BY <1>2, <2>1, <2>5 DEF Distance
  <2>6. CASE per = 1000
    BY <1>2, <2>1, <2>6 DEF Distance
  <2> QED
    BY <2>2, <2>3, <2>4, <2>5, <2>6 DEF Grains
<1> QED
  BY <1>1, <1>2

\* A number on the grid stays where it is.
LEMMA RoundExact ==
  ASSUME NEW q \in Int, NEW per \in Grains
  PROVE  Round(q * per, per) = q
<1>2. CASE per = 2
  BY <1>2 DEF Round
<1>3. CASE per = 4
  BY <1>3 DEF Round
<1>4. CASE per = 10
  BY <1>4 DEF Round
<1>5. CASE per = 100
  BY <1>5 DEF Round
<1>6. CASE per = 1000
  BY <1>6 DEF Round
<1> QED
  BY <1>2, <1>3, <1>4, <1>5, <1>6 DEF Grains

\* Rounded and kept within its range, it is near what was meant or at the edge.
LEMMA ClampNear ==
  ASSUME NEW per \in Grains, NEW lo \in Int, NEW hi \in Int, Spans(lo, hi),
         NEW m \in Int, NEW q,
         q = IF Round(m, per) < lo THEN lo ELSE IF Round(m, per) > hi THEN hi
             ELSE Round(m, per)
  PROVE  /\ q \in Int /\ lo <= q /\ q <= hi
         /\ q * per \in Int /\ lo * per \in Int /\ hi * per \in Int /\ lo * per <= hi * per
         /\ m < lo * per => q * per = lo * per
         /\ m > hi * per => q * per = hi * per
         /\ m >= lo * per /\ m <= hi * per => 2 * Distance(q * per, m) <= per
<1> DEFINE units == Round(m, per)
<1>2. units \in Int /\ 2 * Distance(units * per, m) <= per
  BY RoundNear
<1>6. q = IF units < lo THEN lo ELSE IF units > hi THEN hi ELSE units
  OBVIOUS
<1> HIDE DEF units
<1>5. lo <= hi
  BY DEF Spans
<1>2a. CASE per = 2
  BY <1>2, <1>5, <1>6, <1>2a DEF Distance
<1>3. CASE per = 4
  BY <1>2, <1>5, <1>6, <1>3 DEF Distance
<1>4. CASE per = 10
  BY <1>2, <1>5, <1>6, <1>4 DEF Distance
<1>7. CASE per = 100
  BY <1>2, <1>5, <1>6, <1>7 DEF Distance
<1>8. CASE per = 1000
  BY <1>2, <1>5, <1>6, <1>8 DEF Distance
<1> QED
  BY <1>2a, <1>3, <1>4, <1>7, <1>8 DEF Grains

\* `Quantize`, of a number that is one.
LEMMA QuantizeIs ==
  ASSUME NEW m, NEW grid, m # NaN,
         ~(Round(m, grid.per) < grid.lo /\ Round(m, grid.per) > grid.hi)
  PROVE  Quantize(m, grid) = LET units == Round(m, grid.per)
                             IN IF units < grid.lo THEN grid.lo
                                ELSE IF units > grid.hi THEN grid.hi ELSE units
<1> DEFINE units == Round(m, grid.per)
           zero == 0
<1>1. Quantize(m, grid) = CASE m = NaN -> zero [] units < grid.lo -> grid.lo
                            [] units > grid.hi -> grid.hi [] OTHER -> units
  BY Zenon DEF Quantize
<1>0. ~(units < grid.lo /\ units > grid.hi)
  OBVIOUS
<1> HIDE DEF units, zero
<1>2. Quantize(m, grid) = IF units < grid.lo THEN grid.lo
                          ELSE IF units > grid.hi THEN grid.hi ELSE units
  BY <1>0, <1>1
<1> QED
  BY <1>2, Zenon DEF units

\* What the wire says of a number (`NearRecord` on one field).
LEMMA QuantizeNear ==
  ASSUME NEW grid, IsGrid(grid), NEW m \in Int, IsFinite(m)
  PROVE  /\ Quantize(m, grid) \in Int
         /\ grid.lo <= Quantize(m, grid) /\ Quantize(m, grid) <= grid.hi
         /\ Near(grid, Dequantize(Quantize(m, grid), grid), m)
<1>1. PICK per \in Grains, lo \in Int, hi \in Int :
        Spans(lo, hi) /\ grid.per = per /\ grid.lo = lo /\ grid.hi = hi
  BY DEF IsGrid
<1>2. m # NaN
  BY DEF IsFinite, Infinity, NaN
<1> DEFINE units == Round(m, per)
           q == IF units < lo THEN lo ELSE IF units > hi THEN hi ELSE units
<1>6. ~(units < lo /\ units > hi)
  BY <1>1, RoundNear DEF Spans
<1>3. Quantize(m, grid) = q
  BY <1>1, <1>2, <1>6, QuantizeIs
<1> HIDE DEF q
<1>4. /\ q \in Int /\ lo <= q /\ q <= hi
      /\ q * per \in Int /\ lo * per \in Int /\ hi * per \in Int /\ lo * per <= hi * per
      /\ m < lo * per => q * per = lo * per
      /\ m > hi * per => q * per = hi * per
      /\ m >= lo * per /\ m <= hi * per => 2 * Distance(q * per, m) <= per
  BY <1>1, ClampNear DEF q
<1>5. Near(grid, q * per, m)
  BY <1>1, <1>4 DEF Near
<1> QED
  BY <1>1, <1>3, <1>4, <1>5 DEF Dequantize

\* The second hop changes nothing of what is on the grid already.
LEMMA QuantizeAgain ==
  ASSUME NEW grid, IsGrid(grid), NEW q \in Int, grid.lo <= q, q <= grid.hi
  PROVE  Quantize(Dequantize(q, grid), grid) = q
<1>1. PICK per \in Grains, lo \in Int, hi \in Int :
        Spans(lo, hi) /\ grid.per = per /\ grid.lo = lo /\ grid.hi = hi
  BY DEF IsGrid
<1>3. lo <= q /\ q <= hi /\ q <= 65535
  <2>1. lo <= q /\ q <= hi
    BY <1>1
  <2> QED
    BY <1>1, <2>1 DEF Spans
<1>4. q * per # NaN
  BY <1>1, <1>3 DEF NaN, Grains
<1>5. Round(q * per, per) = q
  BY <1>3, RoundExact
<1> QED
  BY <1>1, <1>3, <1>4, <1>5 DEF Quantize, Dequantize

\* Apart by at most `slack`, but for whole turns.
TurnedTo(got, meant, slack) ==
  \E k \in Int : Distance(got, meant + k * Tau) <= slack

\* A heading is wrapped by whole turns, into half a turn either way.
LEMMA Wraps ==
  ASSUME NEW yaw \in Int
  PROVE  /\ WrapTurn(yaw) \in Int /\ -31415927 <= WrapTurn(yaw) /\ WrapTurn(yaw) < 31415927
         /\ \E k \in Int : WrapTurn(yaw) = yaw + k * Tau
<1> DEFINE k == yaw \div 62831854
           rest == yaw % 62831854
<1>1. k \in Int /\ rest \in Int /\ 0 <= rest /\ rest < 62831854
      /\ yaw = 62831854 * k + rest
  BY SMT
<1>2. WrapTurn(yaw) = IF rest >= 31415927 THEN rest - 62831854 ELSE rest
  BY DEF WrapTurn, Tau, Pi
<1> HIDE DEF k, rest
<1>3. /\ WrapTurn(yaw) \in Int /\ -31415927 <= WrapTurn(yaw) /\ WrapTurn(yaw) < 31415927
  BY <1>1, <1>2
<1>4. CASE rest >= 31415927
  <2>1. WrapTurn(yaw) = yaw + (-k - 1) * 62831854 /\ -k - 1 \in Int
    BY <1>1, <1>2, <1>4
  <2> QED
    BY <1>3, <2>1 DEF Tau, Pi
<1>5. CASE ~(rest >= 31415927)
  <2>1. WrapTurn(yaw) = yaw + (-k) * 62831854 /\ -k \in Int
    BY <1>1, <1>2, <1>5
  <2> QED
    BY <1>3, <2>1 DEF Tau, Pi
<1> QED
  BY <1>4, <1>5

LEMMA GridIs ==
  ASSUME NEW per \in Grains, NEW lo \in Int, NEW hi \in Int, Spans(lo, hi)
  PROVE  IsGrid([per |-> per, lo |-> lo, hi |-> hi])
<1>1. \A p, l, h : LET grid == [per |-> p, lo |-> l, hi |-> h]
                  IN grid.per = p /\ grid.lo = l /\ grid.hi = h
  OBVIOUS
<1> QED
  BY <1>1 DEF IsGrid

\* Every grid of the wire is one of those rounded on above.
LEMMA GoodGrids ==
  /\ IsGrid(PerMetre) /\ IsGrid(PerSpeed) /\ IsGrid(PhaseSteps) /\ IsGrid(PerSecond)
  /\ IsGrid(PerDegree) /\ IsGrid(PerTurn)
<1>1. IsGrid(PerMetre)
  <2> DEFINE p == 10
             l == -32768
             h == 32767
  <2>1. p \in Grains /\ l \in Int /\ h \in Int /\ Spans(l, h)
    BY DEF Grains, Spans
  <2>2. PerMetre = [per |-> p, lo |-> l, hi |-> h]
    BY DEF PerMetre, I16
  <2> HIDE DEF p, l, h
  <2>3. IsGrid([per |-> p, lo |-> l, hi |-> h])
    BY <2>1, GridIs
  <2> QED
    BY <2>2, <2>3, Zenon
<1>2. IsGrid(PerSpeed)
  <2> DEFINE p == 4
             l == -32768
             h == 32767
  <2>1. p \in Grains /\ l \in Int /\ h \in Int /\ Spans(l, h)
    BY DEF Grains, Spans
  <2>2. PerSpeed = [per |-> p, lo |-> l, hi |-> h]
    BY DEF PerSpeed, I16
  <2> HIDE DEF p, l, h
  <2>3. IsGrid([per |-> p, lo |-> l, hi |-> h])
    BY <2>1, GridIs
  <2> QED
    BY <2>2, <2>3, Zenon
<1>3. IsGrid(PhaseSteps)
  <2> DEFINE p == 2
             l == 0
             h == 255
  <2>1. p \in Grains /\ l \in Int /\ h \in Int /\ Spans(l, h)
    BY DEF Grains, Spans
  <2>2. PhaseSteps = [per |-> p, lo |-> l, hi |-> h]
    BY DEF PhaseSteps
  <2> HIDE DEF p, l, h
  <2>3. IsGrid([per |-> p, lo |-> l, hi |-> h])
    BY <2>1, GridIs
  <2> QED
    BY <2>2, <2>3, Zenon
<1>4. IsGrid(PerSecond)
  <2> DEFINE p == 2
             l == 0
             h == 65535
  <2>1. p \in Grains /\ l \in Int /\ h \in Int /\ Spans(l, h)
    BY DEF Grains, Spans
  <2>2. PerSecond = [per |-> p, lo |-> l, hi |-> h]
    BY DEF PerSecond
  <2> HIDE DEF p, l, h
  <2>3. IsGrid([per |-> p, lo |-> l, hi |-> h])
    BY <2>1, GridIs
  <2> QED
    BY <2>2, <2>3, Zenon
<1>5. IsGrid(PerDegree)
  <2> DEFINE p == 100
             l == -128
             h == 127
  <2>1. p \in Grains /\ l \in Int /\ h \in Int /\ Spans(l, h)
    BY DEF Grains, Spans
  <2>2. PerDegree = [per |-> p, lo |-> l, hi |-> h]
    BY DEF PerDegree
  <2> HIDE DEF p, l, h
  <2>3. IsGrid([per |-> p, lo |-> l, hi |-> h])
    BY <2>1, GridIs
  <2> QED
    BY <2>2, <2>3, Zenon
<1>6. IsGrid(PerTurn)
  <2> DEFINE p == 1000
             l == -32768
             h == 32767
  <2>1. p \in Grains /\ l \in Int /\ h \in Int /\ Spans(l, h)
    BY DEF Grains, Spans
  <2>2. PerTurn = [per |-> p, lo |-> l, hi |-> h]
    BY DEF PerTurn, I16
  <2> HIDE DEF p, l, h
  <2>3. IsGrid([per |-> p, lo |-> l, hi |-> h])
    BY <2>1, GridIs
  <2> QED
    BY <2>2, <2>3, Zenon
<1> QED
  BY <1>1, <1>2, <1>3, <1>4, <1>5, <1>6

LEMMA TurnIsGood ==
  /\ IsGrid(PerTurn)
  /\ PerTurn.per = 1000 /\ PerTurn.lo = -32768 /\ PerTurn.hi = 32767
<1> DEFINE p == 1000
           l == -32768
           h == 32767
<1>1. PerTurn = [per |-> p, lo |-> l, hi |-> h]
  BY DEF PerTurn, I16
<1> HIDE DEF p, l, h
<1>2. PerTurn.per = p /\ PerTurn.lo = l /\ PerTurn.hi = h
  BY <1>1
<1>3. IsGrid(PerTurn)
  BY GoodGrids
<1> QED
  BY <1>2, <1>3, SMT DEF p, l, h

\* A heading goes out within half a step of where it is, give or take turns.
LEMMA TurnsNear ==
  ASSUME NEW yaw \in Int, IsFinite(yaw)
  PROVE  /\ Turns(yaw) \in Int
         /\ TurnedTo(Dequantize(Turns(yaw), PerTurn), yaw, 500)
<1> DEFINE w == WrapTurn(yaw)
           t == Quantize(w, PerTurn)
<1>1. Turns(yaw) = t
  BY DEF Turns
<1>2. w \in Int /\ -31415927 <= w /\ w < 31415927 /\ \E k \in Int : w = yaw + k * Tau
  BY Wraps
<1>3. PICK k \in Int : w = yaw + k * Tau
  BY <1>2
<1> HIDE DEF w
<1>4. IsFinite(w)
  BY <1>2 DEF IsFinite, Infinity
<1>5. t \in Int /\ Near(PerTurn, Dequantize(t, PerTurn), w)
  BY <1>2, <1>4, QuantizeNear, TurnIsGood
<1> HIDE DEF t
<1> DEFINE p == PerTurn.per
           l == PerTurn.lo
           h == PerTurn.hi
<1>6. p = 1000 /\ l = -32768 /\ h = 32767
  BY TurnIsGood
<1>7. (CASE w < l * p -> t * p = l * p [] w > h * p -> t * p = h * p
         [] OTHER -> 2 * Distance(t * p, w) <= p)
  BY <1>5 DEF Near, Dequantize
<1>8. Dequantize(t, PerTurn) = t * p
  BY DEF Dequantize
<1> HIDE DEF p, l, h
<1>9. ~(w < l * p) /\ ~(w > h * p)
  BY <1>2, <1>6, SMT
<1>10. 2 * Distance(t * p, w) <= p
  BY <1>7, <1>9
<1>11. p = 1000 /\ Distance(t * 1000, w) <= 500
  BY <1>2, <1>5, <1>6, <1>10, SMT DEF Distance
<1>12. TurnedTo(t * 1000, yaw, 500)
  BY <1>3, <1>11 DEF TurnedTo
<1> QED
  BY <1>1, <1>5, <1>8, <1>11, <1>12

\* Two hops move it by a whole step at most,
LEMMA TurnedTwice ==
  ASSUME NEW a \in Int, NEW b \in Int, NEW c \in Int, TurnedTo(a, b, 500), TurnedTo(b, c, 500)
  PROVE  TurnedTo(a, c, 1000)
<1>1. PICK k \in Int : Distance(a, b + k * Tau) <= 500
  BY DEF TurnedTo
<1>2. PICK n \in Int : Distance(b, c + n * Tau) <= 500
  BY DEF TurnedTo
<1> DEFINE x == k * Tau
           y == n * Tau
<1>3. x \in Int /\ y \in Int /\ (k + n) * Tau = x + y
  BY DEF Tau, Pi
<1> HIDE DEF x, y
<1>4. Distance(a, b + x) <= 500 /\ Distance(b, c + y) <= 500
  BY <1>1, <1>2 DEF x, y
<1>5. Distance(a, c + (x + y)) <= 1000
  BY <1>3, <1>4 DEF Distance
<1>6. k + n \in Int /\ Distance(a, c + (k + n) * Tau) <= 1000
  BY <1>3, <1>5
<1> DEFINE m == k + n
<1> HIDE DEF m
<1>7. m \in Int /\ Distance(a, c + m * Tau) <= 1000
  BY <1>6 DEF m
<1> QED
  BY <1>7 DEF TurnedTo

\* and then it still faces the way it was meant to.
LEMMA TurnedFaces ==
  ASSUME NEW a \in Int, NEW b \in Int, TurnedTo(a, b, 1000)
  PROVE  Faces(a, b)
<1>1. PICK k \in Int : Distance(a, b + k * Tau) <= 1000
  BY DEF TurnedTo
<1>2. PICK e \in Int : a - b = k * Tau + e /\ -1000 <= e /\ e <= 1000
  <2>1. k * Tau \in Int
    BY DEF Tau, Pi
  <2>2. /\ a - (b + k * Tau) \in Int
        /\ -1000 <= a - (b + k * Tau) /\ a - (b + k * Tau) <= 1000
    BY <1>1, <2>1 DEF Distance
  <2>3. a - b = k * Tau + (a - (b + k * Tau))
    BY <2>1
  <2> QED
    BY <2>2, <2>3
<1> DEFINE apart == (a - b) % 62831854
<1>3. apart = IF e >= 0 THEN e ELSE e + 62831854
  BY <1>2 DEF Tau, Pi
<1> HIDE DEF apart
<1>4. apart <= 1000 \/ 62831854 - apart <= 1000
  BY <1>2, <1>3
<1> QED
  BY <1>4, TurnIsGood DEF Faces, apart, Tau, Pi

LEMMA LenIs ==
  ASSUME NEW f, NEW n \in Nat, f = [i \in 1..n |-> f[i]]
  PROVE  Len(f) = n /\ DOMAIN f = 1..n
<1> DEFINE S == {f[i] : i \in 1..n}
<1>1. f \in [1..n -> S]
  OBVIOUS
<1>2. f \in Seq(S)
  BY <1>1
<1> HIDE DEF S
<1>3. DOMAIN f = 1..Len(f) /\ Len(f) \in Nat
  BY <1>2
<1> QED
  BY <1>1, <1>3

\* A record whose numbers are on grids, a heading on that of headings.
Fits(grids, record) ==
  /\ \A f \in DOMAIN grids : IsGrid(grids[f])
  /\ "yaw" \in DOMAIN record => "yaw" \in DOMAIN grids /\ grids["yaw"] = PerTurn
  /\ \A f \in DOMAIN grids \cap DOMAIN record : record[f] \in Int

\* A record, field by field.
LEMMA RecordNear ==
  ASSUME NEW grids, NEW r, Fits(grids, r), AllFinite(grids, r)
  PROVE  NearRecord(grids, UnpackRecord(grids, PackRecord(grids, r)), r)
<1> DEFINE packed == PackRecord(grids, r)
           got == UnpackRecord(grids, packed)
<1>1. DOMAIN packed = DOMAIN r
  BY DEF PackRecord
<1>2. ASSUME NEW f \in DOMAIN r, f \in DOMAIN grids, f # "yaw"
      PROVE  Near(grids[f], got[f], r[f])
  <2>1. packed[f] = Quantize(r[f], grids[f])
    BY <1>2, Zenon DEF PackRecord
  <2>2. got[f] = Dequantize(packed[f], grids[f])
    BY <1>1, <1>2, Zenon DEF UnpackRecord
  <2>3. IsGrid(grids[f]) /\ r[f] \in Int /\ IsFinite(r[f])
    BY <1>2 DEF Fits, AllFinite
  <2> QED
    BY <2>1, <2>2, <2>3, QuantizeNear
<1>3. ASSUME NEW f \in DOMAIN r, f = "yaw"
      PROVE  Faces(got[f], r[f])
  <2>1. packed[f] = Turns(r[f]) /\ f \in DOMAIN grids /\ grids[f] = PerTurn
    BY <1>3, Zenon DEF PackRecord, Fits
  <2>2. got[f] = Dequantize(packed[f], PerTurn)
    BY <1>1, <2>1, Zenon DEF UnpackRecord
  <2>3. r[f] \in Int /\ IsFinite(r[f])
    BY <2>1 DEF Fits, AllFinite
  <2>4. packed[f] \in Int /\ TurnedTo(got[f], r[f], 500)
    BY <2>1, <2>2, <2>3, TurnsNear
  <2>5. got[f] \in Int
    BY <2>2, <2>4, TurnIsGood DEF Dequantize
  <2>6. TurnedTo(got[f], r[f], 1000)
    <3>1. PICK k \in Int : Distance(got[f], r[f] + k * Tau) <= 500
      BY <2>4 DEF TurnedTo
    <3>2. Distance(got[f], r[f] + k * Tau) <= 1000
      BY <2>3, <2>5, <3>1 DEF Distance, Tau, Pi
    <3> QED
      BY <3>2 DEF TurnedTo
  <2> QED
    BY <2>3, <2>5, <2>6, TurnedFaces
<1>4. ASSUME NEW f \in DOMAIN r, f \notin DOMAIN grids
      PROVE  got[f] = r[f]
  <2>1. packed[f] = r[f]
    BY <1>4 DEF PackRecord, Fits
  <2>2. got[f] = packed[f]
    BY <1>1, <1>4 DEF UnpackRecord
  <2> QED
    BY <2>1, <2>2
<1> HIDE DEF got
<1>5. ASSUME NEW f \in DOMAIN r
      PROVE  CASE f = "yaw" -> Faces(got.yaw, r.yaw)
               [] f \in DOMAIN grids \ {"yaw"} -> Near(grids[f], got[f], r[f])
               [] OTHER -> got[f] = r[f]
  <2> DEFINE yaw == "yaw"
             Turn == Faces(got[yaw], r[yaw])
             Grid == Near(grids[f], got[f], r[f])
  <2>1. f = yaw => Turn
    BY <1>3
  <2>2. f # yaw /\ f \in DOMAIN grids => Grid
    BY <1>2
  <2>3. f \notin DOMAIN grids => got[f] = r[f]
    BY <1>4
  <2> HIDE DEF yaw, Turn, Grid
  <2>5. (CASE f = yaw -> Turn [] f \in DOMAIN grids \ {yaw} -> Grid [] OTHER -> got[f] = r[f])
    BY <2>1, <2>2, <2>3
  <2> QED
    BY <2>5, Zenon DEF yaw, Turn, Grid
<1>6. NearRecord(grids, got, r)
  BY <1>5, Zenon DEF NearRecord
<1> QED
  BY <1>6, Zenon DEF got

\* Lists of lists of records, packed and unpacked each where it is.
LEMMA ListsNear ==
  ASSUME NEW grids, NEW meant, NEW got, Len(meant) \in Nat,
         \A i \in 1..Len(meant) : Len(meant[i]) \in Nat,
         \A i \in 1..Len(meant) : \A j \in 1..Len(meant[i]) :
           Fits(grids, meant[i][j]) /\ AllFinite(grids, meant[i][j]),
         got = [i \in 1..Len(meant) |-> [j \in 1..Len(meant[i]) |->
                 UnpackRecord(grids, PackRecord(grids, meant[i][j]))]]
  PROVE  NearLists(grids, got, meant)
<1>1. Len(got) = Len(meant)
  BY LenIs
<1>2. ASSUME NEW i \in 1..Len(meant)
      PROVE  /\ got[i] = [j \in 1..Len(meant[i]) |->
                 UnpackRecord(grids, PackRecord(grids, meant[i][j]))]
             /\ Len(got[i]) = Len(meant[i])
  <2>1. got[i] = [j \in 1..Len(meant[i]) |->
                    UnpackRecord(grids, PackRecord(grids, meant[i][j]))]
    BY Zenon
  <2>2. Len(meant[i]) \in Nat
    OBVIOUS
  <2>3. got[i] = [j \in 1..Len(meant[i]) |-> got[i][j]]
    BY <2>1
  <2> QED
    BY <2>1, <2>2, <2>3, LenIs
<1>3. ASSUME NEW i \in 1..Len(meant), NEW j \in 1..Len(meant[i])
      PROVE  NearRecord(grids, got[i][j], meant[i][j])
  <2>1. got[i][j] = UnpackRecord(grids, PackRecord(grids, meant[i][j]))
    BY <1>2, Zenon
  <2> QED
    BY <2>1, RecordNear
<1> QED
  BY <1>1, <1>2, <1>3 DEF NearLists

LEMMA ListsTravel ==
  ASSUME NEW grids, NEW list, Len(list) \in Nat,
         \A i \in 1..Len(list) : Len(list[i]) \in Nat,
         NEW packed, NEW got,
         packed = [i \in 1..Len(list) |-> [j \in 1..Len(list[i]) |->
                     PackRecord(grids, list[i][j])]],
         got = [i \in 1..Len(packed) |-> [j \in 1..Len(packed[i]) |->
                     UnpackRecord(grids, packed[i][j])]]
  PROVE  got = [i \in 1..Len(list) |-> [j \in 1..Len(list[i]) |->
                     UnpackRecord(grids, PackRecord(grids, list[i][j]))]]
<1>1. Len(packed) = Len(list)
  BY LenIs
<1>2. ASSUME NEW i \in 1..Len(list)
      PROVE  /\ packed[i] = [j \in 1..Len(list[i]) |-> PackRecord(grids, list[i][j])]
             /\ Len(packed[i]) = Len(list[i])
  <2>1. packed[i] = [j \in 1..Len(list[i]) |-> PackRecord(grids, list[i][j])]
    BY Zenon
  <2>2. Len(list[i]) \in Nat
    OBVIOUS
  <2>3. packed[i] = [j \in 1..Len(list[i]) |-> packed[i][j]]
    BY <2>1
  <2> QED
    BY <2>1, <2>2, <2>3, LenIs
<1>3. ASSUME NEW i \in 1..Len(list)
      PROVE  [j \in 1..Len(packed[i]) |-> UnpackRecord(grids, packed[i][j])]
             = [j \in 1..Len(list[i]) |-> UnpackRecord(grids, PackRecord(grids, list[i][j]))]
  BY <1>2
<1> QED
  BY <1>1, <1>3

\* One list is a list of lists.
LEMMA ListTravels ==
  ASSUME NEW grids, NEW list, Len(list) \in Nat, NEW packed, NEW got,
         \A j \in 1..Len(list) : Fits(grids, list[j]) /\ AllFinite(grids, list[j]),
         packed = [j \in 1..Len(list) |-> PackRecord(grids, list[j])],
         got = [j \in 1..Len(packed) |-> UnpackRecord(grids, packed[j])]
  PROVE  NearLists(grids, <<got>>, <<list>>)
<1>1. Len(packed) = Len(list)
  BY LenIs
<1>2. got = [j \in 1..Len(list) |-> UnpackRecord(grids, PackRecord(grids, list[j]))]
  BY <1>1
<1> DEFINE meant == <<list>>
           lists == <<got>>
<1>3. Len(meant) = 1 /\ meant[1] = list /\ Len(lists) = 1 /\ lists[1] = got
  OBVIOUS
<1>5. lists = [i \in 1..1 |-> got]
  OBVIOUS
<1> HIDE DEF meant, lists
<1>4. lists = [i \in 1..Len(meant) |-> [j \in 1..Len(meant[i]) |->
                 UnpackRecord(grids, PackRecord(grids, meant[i][j]))]]
  <2>1. \A i \in 1..1 : i = 1
    OBVIOUS
  <2>2. \A i \in 1..1 : got = [j \in 1..Len(meant[i]) |->
                 UnpackRecord(grids, PackRecord(grids, meant[i][j]))]
    BY <1>2, <1>3, <2>1
  <2> QED
    BY <1>3, <1>5, <2>2
<1>6. NearLists(grids, lists, meant)
  <2>1. \A i \in 1..Len(meant) : meant[i] = list
    BY <1>3
  <2> QED
    <3>1. Len(meant) \in Nat /\ \A i \in 1..Len(meant) : Len(meant[i]) \in Nat
      BY <1>3, <2>1
    <3>2. \A i \in 1..Len(meant) : \A j \in 1..Len(meant[i]) :
            Fits(grids, meant[i][j]) /\ AllFinite(grids, meant[i][j])
      BY <2>1
    <3> QED
      BY <1>4, <3>1, <3>2, ListsNear, Zenon
<1> QED
  BY <1>6 DEF meant, lists

\* What a scene says and a host publishes has a grid for each of its numbers.
LEMMA GridsFit ==
  /\ \A r \in Pose : Fits(PeerState, r)
  /\ \A r \in BotLine : Fits(BotState, r)
  /\ \A r \in [key : Int, left : Int] : Fits(EatenCell, r)
  /\ \A r \in [x : Int, z : Int, r : Int, depth : Int] : Fits(Crater, r)
<1>2. ASSUME NEW r \in Pose PROVE Fits(PeerState, r)
  BY GoodGrids DEF Fits, PeerState, Pose
<1>3. ASSUME NEW r \in BotLine PROVE Fits(BotState, r)
  BY GoodGrids DEF Fits, BotState, BotLine
<1>4. ASSUME NEW r \in [key : Int, left : Int] PROVE Fits(EatenCell, r)
  BY GoodGrids DEF Fits, EatenCell
<1>5. ASSUME NEW r \in [x : Int, z : Int, r : Int, depth : Int] PROVE Fits(Crater, r)
  BY GoodGrids DEF Fits, Crater
<1> QED
  BY <1>2, <1>3, <1>4, <1>5

LEMMA ListsCross ==
  ASSUME NEW R, NEW list \in Seq(Seq(R)), NEW grids, \A r \in R : Fits(grids, r),
         \A i \in 1..Len(list) : \A j \in 1..Len(list[i]) : AllFinite(grids, list[i][j]),
         NEW packed, NEW got,
         packed = [i \in 1..Len(list) |-> [j \in 1..Len(list[i]) |->
                     PackRecord(grids, list[i][j])]],
         got = [i \in 1..Len(packed) |-> [j \in 1..Len(packed[i]) |->
                     UnpackRecord(grids, packed[i][j])]]
  PROVE  NearLists(grids, got, list)
<1>1. /\ Len(list) \in Nat
      /\ \A i \in 1..Len(list) : list[i] \in Seq(R)
  OBVIOUS
<1>2. \A i \in 1..Len(list) : Len(list[i]) \in Nat
  BY <1>1
<1>3. ASSUME NEW i \in 1..Len(list), NEW j \in 1..Len(list[i])
      PROVE  Fits(grids, list[i][j]) /\ AllFinite(grids, list[i][j])
  <2>1. list[i][j] \in R
    BY <1>1
  <2> QED
    BY <2>1
<1>4. got = [i \in 1..Len(list) |-> [j \in 1..Len(list[i]) |->
               UnpackRecord(grids, PackRecord(grids, list[i][j]))]]
  BY <1>1, <1>2, ListsTravel
<1> QED
  BY <1>1, <1>2, <1>3, <1>4, ListsNear

\* The head of a world, and the world.
LEMMA HeadNear ==
  ASSUME NEW h \in HeadLine, HeadIsFinite(h), NEW g, g = UnpackHead(PackHead(h))
  PROVE  /\ NearLists(EatenCell, g.eaten, h.eaten)
         /\ NearLists(Crater, g.craters, h.craters)
         /\ g.spent = h.spent
<1> DEFINE p == PackHead(h)
<1>1. /\ h.eaten \in Seq(Seq([key : Int, left : Int]))
      /\ h.craters \in Seq(Seq([x : Int, z : Int, r : Int, depth : Int]))
  BY DEF HeadLine
<1>2. /\ p.eaten = [i \in 1..Len(h.eaten) |-> [j \in 1..Len(h.eaten[i]) |->
                      PackRecord(EatenCell, h.eaten[i][j])]]
      /\ p.craters = [i \in 1..Len(h.craters) |-> [j \in 1..Len(h.craters[i]) |->
                      PackRecord(Crater, h.craters[i][j])]]
      /\ p.spent = h.spent
      /\ DOMAIN p = {"eaten", "craters", "spent"}
  BY DEF PackHead, HeadLine, Each, PackEaten, PackCrater
<1> HIDE DEF p
<1>3. /\ g.eaten = [i \in 1..Len(p.eaten) |-> [j \in 1..Len(p.eaten[i]) |->
                      UnpackRecord(EatenCell, p.eaten[i][j])]]
      /\ g.craters = [i \in 1..Len(p.craters) |-> [j \in 1..Len(p.craters[i]) |->
                      UnpackRecord(Crater, p.craters[i][j])]]
      /\ g.spent = p.spent
  <2>1. g = UnpackHead(p)
    BY DEF p
  <2> QED
    BY <1>2, <2>1 DEF UnpackHead, Each, UnpackEaten, UnpackCrater
<1>4. NearLists(EatenCell, g.eaten, h.eaten)
  <2>1. \A i \in 1..Len(h.eaten) : \A j \in 1..Len(h.eaten[i]) :
          AllFinite(EatenCell, h.eaten[i][j])
    BY DEF HeadIsFinite
  <2>2. \A r \in [key : Int, left : Int] : Fits(EatenCell, r)
    BY GridsFit
  <2> QED
    BY <1>1, <1>2, <1>3, <2>1, <2>2, ListsCross
<1>5. NearLists(Crater, g.craters, h.craters)
  <2>1. \A i \in 1..Len(h.craters) : \A j \in 1..Len(h.craters[i]) :
          AllFinite(Crater, h.craters[i][j])
    BY DEF HeadIsFinite
  <2>2. \A r \in [x : Int, z : Int, r : Int, depth : Int] : Fits(Crater, r)
    BY GridsFit
  <2> QED
    BY <1>1, <1>2, <1>3, <2>1, <2>2, ListsCross
<1> QED
  BY <1>2, <1>3, <1>4, <1>5

LEMMA WorldNear ==
  ASSUME NEW part \in Worlds, DatagramIsFinite(part), NEW got, got = Unpack(Pack(part))
  PROVE  got.kind = "world" /\ NearWorld(got, part)
<1> DEFINE p == Pack(part)
<1>1. /\ part \in [kind : {"world"}, part : Nat, parts : Nat, herd : Nat,
                   head : Seq(HeadLine), bots : Seq(BotLine)]
  BY MediaAssumption
<1>2. /\ p.kind = "world"
      /\ p.head = [i \in 1..Len(part.head) |-> PackHead(part.head[i])]
      /\ p.bots = [i \in 1..Len(part.bots) |-> PackRecord(BotState, part.bots[i])]
      /\ DOMAIN p = {"kind", "part", "parts", "herd", "head", "bots"}
  BY <1>1 DEF Pack, Each, PackBot
<1> HIDE DEF p
<1>3. /\ got.kind = "world"
      /\ got.head = [i \in 1..Len(p.head) |-> UnpackHead(p.head[i])]
      /\ got.bots = [i \in 1..Len(p.bots) |-> UnpackRecord(BotState, p.bots[i])]
  <2>1. got = Unpack(p)
    BY DEF p
  <2> QED
    BY <1>2, <2>1 DEF Unpack, Each, UnpackBot
<1>4. /\ \A i \in 1..Len(part.head) : HeadIsFinite(part.head[i])
      /\ \A i \in 1..Len(part.bots) : AllFinite(BotState, part.bots[i])
  BY <1>1 DEF DatagramIsFinite
<1>5. NearLists(BotState, <<got.bots>>, <<part.bots>>)
  <2>1. Len(part.bots) \in Nat /\ \A i \in 1..Len(part.bots) : part.bots[i] \in BotLine
    BY <1>1
  <2>2. \A i \in 1..Len(part.bots) :
          Fits(BotState, part.bots[i]) /\ AllFinite(BotState, part.bots[i])
    BY <1>4, <2>1, GridsFit
  <2> QED
    BY <1>2, <1>3, <2>1, <2>2, ListTravels, Zenon
<1>6. Len(part.head) \in Nat /\ \A i \in 1..Len(part.head) : part.head[i] \in HeadLine
  BY <1>1
<1>7. Len(p.head) = Len(part.head) /\ Len(got.head) = Len(part.head)
  <2>1. p.head = [i \in 1..Len(part.head) |-> p.head[i]]
    BY <1>2
  <2>2. Len(p.head) = Len(part.head)
    BY <1>6, <2>1, LenIs
  <2>3. got.head = [i \in 1..Len(part.head) |-> got.head[i]]
    BY <1>3, <2>2
  <2> QED
    BY <1>6, <2>2, <2>3, LenIs
<1>8. ASSUME NEW i \in 1..Len(part.head)
      PROVE  /\ NearLists(EatenCell, got.head[i].eaten, part.head[i].eaten)
             /\ NearLists(Crater, got.head[i].craters, part.head[i].craters)
             /\ got.head[i].spent = part.head[i].spent
  <2>1. got.head[i] = UnpackHead(PackHead(part.head[i]))
    BY <1>2, <1>3, <1>7
  <2> QED
    BY <1>4, <1>6, <2>1, HeadNear
<1> QED
  BY <1>3, <1>5, <1>7, <1>8 DEF NearWorld

\* A goat's state under way: each number on its grid, and the heading where the
\* owner has it but for whole turns and at most `slack`.
SaysPose(state, pose, slack) ==
  /\ DOMAIN state = DOMAIN pose
  /\ \A f \in DOMAIN PeerState \ {"yaw"} :
       state[f] = Quantize(pose[f], PeerState[f]) /\ IsFinite(pose[f])
  /\ state.yaw \in Int
  /\ TurnedTo(Dequantize(state.yaw, PerTurn), pose.yaw, slack)
  /\ \A f \in {"gait", "pitch", "roll"} : state[f] = Bridged(pose)[f]

LEMMA PoseParts ==
  ASSUME NEW pose \in Pose
  PROVE  /\ DOMAIN pose = {"x", "z", "yaw", "phase", "speed", "py", "gait", "pitch", "roll"}
         /\ DOMAIN PeerState = {"x", "z", "yaw", "phase", "speed", "py"}
         /\ DOMAIN Bridged(pose) = DOMAIN pose
         /\ \A f \in DOMAIN PeerState : Bridged(pose)[f] = pose[f] /\ pose[f] \in Int
         /\ \A f \in DOMAIN PeerState : IsGrid(PeerState[f])
         /\ PeerState["yaw"] = PerTurn
         /\ pose.yaw \in Int
<1>1. /\ DOMAIN pose = {"x", "z", "yaw", "phase", "speed", "py", "gait", "pitch", "roll"}
      /\ pose["x"] \in Int /\ pose["z"] \in Int /\ pose["yaw"] \in Int /\ pose["phase"] \in Int
      /\ pose["speed"] \in Int /\ pose["py"] \in Int
  BY DEF Pose
<1>2. DOMAIN PeerState = {"x", "z", "yaw", "phase", "speed", "py"}
  BY DEF PeerState
<1>3. \A a, b, c : LET r == [pose EXCEPT !.gait = a, !.pitch = b, !.roll = c]
                  IN /\ DOMAIN r = DOMAIN pose
                     /\ \A f \in DOMAIN pose \ {"gait", "pitch", "roll"} : r[f] = pose[f]
  OBVIOUS
<1>4. /\ DOMAIN Bridged(pose) = DOMAIN pose
      /\ \A f \in DOMAIN pose \ {"gait", "pitch", "roll"} : Bridged(pose)[f] = pose[f]
  BY <1>3, Zenon DEF Bridged
<1>5. \A f \in DOMAIN PeerState : f \in DOMAIN pose \ {"gait", "pitch", "roll"}
  BY <1>1, <1>2
<1>6. \A f \in DOMAIN PeerState : pose[f] \in Int
  BY <1>1, <1>2
<1>7. /\ PeerState["x"] = PerMetre /\ PeerState["z"] = PerMetre /\ PeerState["yaw"] = PerTurn
      /\ PeerState["phase"] = PhaseSteps /\ PeerState["speed"] = PerSpeed
      /\ PeerState["py"] = PerMetre
  BY Zenon DEF PeerState
<1>8. \A f \in DOMAIN PeerState : IsGrid(PeerState[f])
  BY <1>2, <1>7, GoodGrids
<1> QED
  BY <1>1, <1>2, <1>4, <1>5, <1>6, <1>7, <1>8

\* What a scene says is packed once.
LEMMA SaidOnce ==
  ASSUME NEW pose \in Pose, AllFinite(PeerState, Bridged(pose))
  PROVE  SaysPose(PackPeer(Bridged(pose)), pose, 500)
<1> DEFINE b == Bridged(pose)
           s == PackPeer(b)
<1>1. /\ DOMAIN b = DOMAIN pose /\ DOMAIN PeerState \subseteq DOMAIN b
      /\ \A f \in DOMAIN PeerState : b[f] = pose[f] /\ pose[f] \in Int
      /\ "yaw" \in DOMAIN PeerState /\ PeerState["yaw"] = PerTurn
      /\ {"gait", "pitch", "roll"} \subseteq DOMAIN b \ DOMAIN PeerState
  BY PoseParts
<1>2. \A f \in DOMAIN PeerState : IsFinite(b[f])
  BY <1>1 DEF AllFinite
<1> HIDE DEF b
<1>3. s = [f \in DOMAIN b |->
             CASE f \notin DOMAIN PeerState -> b[f]
               [] f = "yaw" -> Turns(b[f])
               [] OTHER -> Quantize(b[f], PeerState[f])]
  BY DEF PackPeer, PackRecord
<1> HIDE DEF s
<1>4. DOMAIN s = DOMAIN b
  BY <1>3
<1>5. \A f \in DOMAIN PeerState \ {"yaw"} : s[f] = Quantize(b[f], PeerState[f])
  BY <1>1, <1>3, Zenon
<1>6. \A f \in {"gait", "pitch", "roll"} : s[f] = b[f]
  <2>1. \A f \in DOMAIN b \ DOMAIN PeerState : s[f] = b[f]
    BY <1>1, <1>3
  <2> QED
    BY <1>1, <2>1
<1>7. s["yaw"] = Turns(b["yaw"])
  BY <1>1, <1>3, Zenon
<1>8. s["yaw"] \in Int /\ TurnedTo(Dequantize(s["yaw"], PerTurn), pose["yaw"], 500)
  BY <1>1, <1>2, <1>7, TurnsNear
<1>9. SaysPose(s, pose, 500)
  BY <1>1, <1>2, <1>4, <1>5, <1>6, <1>8, Zenon DEF SaysPose, b
<1> QED
  BY <1>9, Zenon DEF s, b

\* Unpacked and packed again by the host, it says the same.
LEMMA SaidTwice ==
  ASSUME NEW pose \in Pose, NEW s, SaysPose(s, pose, 500),
         AllFinite(PeerState, UnpackPeer(s))
  PROVE  SaysPose(PackPeer(UnpackPeer(s)), pose, 1000)
<1> DEFINE u == UnpackPeer(s)
           t == PackPeer(u)
<1>1. /\ DOMAIN s = DOMAIN pose /\ DOMAIN PeerState \subseteq DOMAIN s
      /\ \A f \in DOMAIN PeerState : IsGrid(PeerState[f]) /\ pose[f] \in Int
      /\ "yaw" \in DOMAIN PeerState /\ PeerState["yaw"] = PerTurn
      /\ {"gait", "pitch", "roll"} \subseteq DOMAIN s \ DOMAIN PeerState
      /\ pose["yaw"] \in Int
  BY PoseParts DEF SaysPose
<1>2. u = [f \in DOMAIN s |-> IF f \in DOMAIN PeerState THEN Dequantize(s[f], PeerState[f])
                                                         ELSE s[f]]
  BY DEF UnpackPeer, UnpackRecord
<1>3. /\ DOMAIN u = DOMAIN s
      /\ \A f \in DOMAIN PeerState : u[f] = Dequantize(s[f], PeerState[f])
      /\ \A f \in {"gait", "pitch", "roll"} : u[f] = s[f]
  BY <1>1, <1>2
<1>4. \A f \in DOMAIN PeerState : IsFinite(u[f])
  BY <1>1, <1>3 DEF AllFinite
<1> HIDE DEF u
<1>5. t = [f \in DOMAIN u |->
             CASE f \notin DOMAIN PeerState -> u[f]
               [] f = "yaw" -> Turns(u[f])
               [] OTHER -> Quantize(u[f], PeerState[f])]
  BY DEF PackPeer, PackRecord
<1> HIDE DEF t
<1>6. DOMAIN t = DOMAIN pose
  BY <1>1, <1>3, <1>5
<1>7. ASSUME NEW f \in DOMAIN PeerState \ {"yaw"}
      PROVE  t[f] = Quantize(pose[f], PeerState[f]) /\ IsFinite(pose[f])
  <2>1. t[f] = Quantize(u[f], PeerState[f])
    BY <1>1, <1>3, <1>5, Zenon
  <2>2. u[f] = Dequantize(s[f], PeerState[f])
    BY <1>3
  <2>3. s[f] = Quantize(pose[f], PeerState[f]) /\ IsFinite(pose[f])
    BY DEF SaysPose
  <2>4. IsGrid(PeerState[f]) /\ pose[f] \in Int
    BY <1>1
  <2>5. s[f] \in Int /\ PeerState[f].lo <= s[f] /\ s[f] <= PeerState[f].hi
    BY <2>3, <2>4, QuantizeNear
  <2>6. Quantize(Dequantize(s[f], PeerState[f]), PeerState[f]) = s[f]
    BY <2>4, <2>5, QuantizeAgain
  <2> QED
    BY <2>1, <2>2, <2>3, <2>6
<1>8. \A f \in {"gait", "pitch", "roll"} : t[f] = Bridged(pose)[f]
  <2>1. \A f \in DOMAIN u \ DOMAIN PeerState : t[f] = u[f]
    BY <1>1, <1>3, <1>5
  <2>2. \A f \in {"gait", "pitch", "roll"} : s[f] = Bridged(pose)[f]
    BY Zenon DEF SaysPose
  <2> QED
    BY <1>1, <1>3, <2>1, <2>2
<1>9. t["yaw"] \in Int /\ TurnedTo(Dequantize(t["yaw"], PerTurn), pose["yaw"], 1000)
  <2>1. t["yaw"] = Turns(u["yaw"])
    BY <1>1, <1>3, <1>5, Zenon
  <2>2. u["yaw"] = Dequantize(s["yaw"], PerTurn)
    BY <1>1, <1>3
  <2>3. s["yaw"] \in Int /\ TurnedTo(u["yaw"], pose["yaw"], 500)
    BY <2>2, Zenon DEF SaysPose
  <2>4. u["yaw"] \in Int
    BY <2>2, <2>3, TurnIsGood DEF Dequantize
  <2>5. t["yaw"] \in Int /\ TurnedTo(Dequantize(t["yaw"], PerTurn), u["yaw"], 500)
    BY <1>1, <1>4, <2>1, <2>4, TurnsNear
  <2>6. Dequantize(t["yaw"], PerTurn) \in Int
    BY <2>5, TurnIsGood DEF Dequantize
  <2> QED
    BY <1>1, <2>3, <2>4, <2>5, <2>6, TurnedTwice
<1>10. SaysPose(t, pose, 1000)
  BY <1>6, <1>7, <1>8, <1>9, Zenon DEF SaysPose
<1> QED
  BY <1>10, Zenon DEF t, u

\* The attitude, which the scene's line has rounded already.
LEMMA DegreesNear ==
  ASSUME NEW angle \in Int
  PROVE  Near(PerDegree, Degrees(angle) * PerDegree.per, IF IsFinite(angle) THEN angle ELSE 0)
<1>0. IsGrid(PerDegree)
  BY GoodGrids
<1>1. CASE IsFinite(angle)
  BY <1>0, <1>1, QuantizeNear DEF Degrees, Dequantize
<1>2. CASE ~IsFinite(angle)
  <2> DEFINE zero == 0
  <2>1. zero \in Int /\ IsFinite(zero) /\ \A n \in Int : zero * n = zero
    BY DEF IsFinite, Infinity
  <2>2. PICK per \in Grains, lo \in Int, hi \in Int :
          Spans(lo, hi) /\ PerDegree.per = per /\ PerDegree.lo = lo /\ PerDegree.hi = hi
    BY <1>0 DEF IsGrid
  <2>3. lo <= zero /\ zero <= hi /\ per \in Int
    BY <2>2 DEF Spans, Grains
  <2>4. Degrees(angle) = zero
    BY <1>2 DEF Degrees
  <2>5. (IF IsFinite(angle) THEN angle ELSE 0) = zero
    BY <1>2
  <2> HIDE DEF zero
  <2>6. PerDegree.lo <= zero /\ zero <= PerDegree.hi /\ Dequantize(zero, PerDegree) = zero
    BY <2>1, <2>2, <2>3 DEF Dequantize
  <2>7. Quantize(zero, PerDegree) = zero
    BY <1>0, <2>1, <2>6, QuantizeAgain
  <2>8. Near(PerDegree, Dequantize(Quantize(zero, PerDegree), PerDegree), zero)
    BY <1>0, <2>1, QuantizeNear
  <2>9. Near(PerDegree, zero * PerDegree.per, zero)
    BY <2>7, <2>8 DEF Dequantize
  <2> QED
    BY <2>4, <2>5, <2>9
<1> QED
  BY <1>1, <1>2

\* What a scene shows of it.
LEMMA SaidIsNear ==
  ASSUME NEW pose \in Pose, NEW s, SaysPose(s, pose, 1000), NEW got, got = UnpackPeer(s)
  PROVE  NearPose(got, pose)
<1>1. /\ DOMAIN s = DOMAIN pose /\ DOMAIN PeerState \subseteq DOMAIN s
      /\ \A f \in DOMAIN PeerState : IsGrid(PeerState[f]) /\ pose[f] \in Int
      /\ "yaw" \in DOMAIN PeerState /\ PeerState["yaw"] = PerTurn
      /\ {"gait", "pitch", "roll"} \subseteq DOMAIN s \ DOMAIN PeerState
      /\ DOMAIN pose \ {"gait", "pitch", "roll"} = DOMAIN PeerState
  BY PoseParts DEF SaysPose
<1>2. got = [f \in DOMAIN s |-> IF f \in DOMAIN PeerState THEN Dequantize(s[f], PeerState[f])
                                                           ELSE s[f]]
  BY DEF UnpackPeer, UnpackRecord
<1>3. /\ DOMAIN got = DOMAIN pose
      /\ \A f \in DOMAIN PeerState : got[f] = Dequantize(s[f], PeerState[f])
      /\ \A f \in {"gait", "pitch", "roll"} : got[f] = s[f]
  BY <1>1, <1>2
<1>4. ASSUME NEW f \in DOMAIN PeerState, f # "yaw"
      PROVE  Near(PeerState[f], got[f], pose[f])
  <2>1. s[f] = Quantize(pose[f], PeerState[f]) /\ IsFinite(pose[f])
    BY <1>4 DEF SaysPose
  <2> QED
    BY <1>1, <1>3, <2>1, QuantizeNear
<1>5. Faces(got["yaw"], pose["yaw"])
  <2>1. s["yaw"] \in Int /\ TurnedTo(Dequantize(s["yaw"], PerTurn), pose["yaw"], 1000)
    BY Zenon DEF SaysPose
  <2>2. got["yaw"] = Dequantize(s["yaw"], PerTurn)
    BY <1>1, <1>3
  <2>3. got["yaw"] \in Int
    BY <2>1, <2>2, TurnIsGood DEF Dequantize
  <2> QED
    BY <1>1, <2>1, <2>2, <2>3, TurnedFaces
<1> DEFINE copied == {"gait", "pitch", "roll"}
           shownOf == [f \in DOMAIN got \ copied |-> got[f]]
           meantOf == [f \in DOMAIN pose \ copied |-> pose[f]]
<1>6. /\ DOMAIN meantOf = DOMAIN PeerState
      /\ \A f \in DOMAIN PeerState : shownOf[f] = got[f] /\ meantOf[f] = pose[f]
  BY <1>1, <1>3
<1> HIDE DEF shownOf, meantOf
<1>7. NearRecord(PeerState, shownOf, meantOf)
  <2>1. ASSUME NEW f \in DOMAIN meantOf
        PROVE  CASE f = "yaw" -> Faces(shownOf.yaw, meantOf.yaw)
                 [] f \in DOMAIN PeerState \ {"yaw"} -> Near(PeerState[f], shownOf[f], meantOf[f])
                 [] OTHER -> shownOf[f] = meantOf[f]
    <3> DEFINE yaw == "yaw"
               Turn == Faces(shownOf[yaw], meantOf[yaw])
               Grid == Near(PeerState[f], shownOf[f], meantOf[f])
    <3>1. Turn
      BY <1>1, <1>5, <1>6
    <3>2. f # yaw => Grid
      BY <1>4, <1>6
    <3> HIDE DEF yaw, Turn, Grid
    <3>3. (CASE f = yaw -> Turn [] f \in DOMAIN PeerState \ {yaw} -> Grid
             [] OTHER -> shownOf[f] = meantOf[f])
      BY <1>6, <3>1, <3>2
    <3> QED
      BY <3>3, Zenon DEF yaw, Turn, Grid
  <2> QED
    BY <2>1, Zenon DEF NearRecord
<1>8. /\ got.gait = ParseGait(pose.gait)
      /\ got.pitch = Degrees(pose.pitch) /\ got.roll = Degrees(pose.roll)
      /\ pose.pitch \in Int /\ pose.roll \in Int
  <2>1. \A f \in {"gait", "pitch", "roll"} : got[f] = Bridged(pose)[f]
    BY <1>3, Zenon DEF SaysPose
  <2>2. \A a, b, c : LET r == [pose EXCEPT !.gait = a, !.pitch = b, !.roll = c]
                    IN r["gait"] = a /\ r["pitch"] = b /\ r["roll"] = c
    BY DEF Pose
  <2>3. /\ Bridged(pose)["gait"] = ParseGait(pose.gait)
        /\ Bridged(pose)["pitch"] = Degrees(pose.pitch)
        /\ Bridged(pose)["roll"] = Degrees(pose.roll)
    <3>1. Bridged(pose) = [pose EXCEPT !.gait = ParseGait(pose.gait),
                                       !.pitch = Degrees(pose.pitch),
                                       !.roll = Degrees(pose.roll)]
      BY DEF Bridged
    <3> QED
      BY <2>2, <3>1
  <2>4. pose.pitch \in Int /\ pose.roll \in Int
    BY DEF Pose
  <2> QED
    BY <2>1, <2>3, <2>4, Zenon
<1>9. got.gait = pose.gait \/ (pose.gait \notin Gaits /\ got.gait = "idle")
  BY <1>8, Zenon DEF ParseGait
<1>10. /\ Near(PerDegree, got.pitch * PerDegree.per,
               IF IsFinite(pose.pitch) THEN pose.pitch ELSE 0)
       /\ Near(PerDegree, got.roll * PerDegree.per,
               IF IsFinite(pose.roll) THEN pose.roll ELSE 0)
  BY <1>8, DegreesNear
<1> QED
  BY <1>7, <1>9, <1>10, Zenon DEF NearPose, shownOf, meantOf

\* Of a datagram under way: what it will show, where it is going.
Carries(to, d, m) ==
  /\ to \in {"host", "bob"}
  /\ d.kind = m.kind
  /\ \/ /\ d = [kind |-> "peer", name |-> d.name, state |-> d.state]
        /\ m.what \in Pose
        /\ SaysPose(d.state, m.what, IF to = "host" THEN 500 ELSE 1000)
        /\ IF to = "host" THEN m.name = "ann" ELSE d.name = m.name
     \/ /\ d = [kind |-> "voice", name |-> d.name, size |-> m.what]
        /\ IF to = "host" THEN m.name = "ann" ELSE d.name = m.name
     \/ /\ d = [kind |-> "mods", size |-> m.what]
        /\ to = "bob"
     \/ /\ m.what \in Worlds /\ DatagramIsFinite(m.what) /\ d = Pack(m.what)
        /\ d.kind = "world" /\ to = "bob"

\* `ShownAsMeant` of one datagram.
AsMeant(got, meant) ==
  /\ got.kind = meant.kind
  /\ got.kind \in {"peer", "voice"} => got.name = meant.name
  /\ got.kind = "peer" => NearPose(got.state, meant.what)
  /\ got.kind \in {"voice", "mods"} => got.size = meant.what
  /\ got.kind = "world" => NearWorld(got, meant.what)

\* What is under way will show what was meant, and what is shown does.
AirInv ==
  air = None \/ (air = <<air[1]>> /\ Carries(air[1].to, air[1].packed, air[1].meant))

MediaInv == AirInv /\ ShownAsMeant

LEMMA ShownIsMeant == 
  /\ (\E got, meant : AsMeant(got, meant) /\ \E l : shown' = <<[listener |-> l, got |-> got, meant |-> meant]>>)
       => ShownAsMeant'
  /\ shown' = None => ShownAsMeant'
  /\ ShownAsMeant /\ shown' = shown => ShownAsMeant'
<1>1. ASSUME NEW got, NEW meant, NEW l, AsMeant(got, meant),
             shown' = <<[listener |-> l, got |-> got, meant |-> meant]>>
      PROVE  ShownAsMeant'
  <2>1. ASSUME NEW i \in 1..Len(shown')
        PROVE  AsMeant(shown'[i].got, shown'[i].meant)
    <3>1. i = 1
      BY <1>1
    <3>2. shown'[1].got = got /\ shown'[1].meant = meant
      BY <1>1
    <3> QED
      BY <1>1, <3>1, <3>2, Zenon
  <2> QED
    BY <2>1, Zenon DEF ShownAsMeant, AsMeant
<1>2. ASSUME shown' = None PROVE ShownAsMeant'
  BY <1>2 DEF ShownAsMeant, None
<1>3. ASSUME ShownAsMeant, shown' = shown PROVE ShownAsMeant'
  BY <1>3, Zenon DEF ShownAsMeant
<1> QED
  BY <1>1, <1>2, <1>3, Zenon

\* What is sent is under way as it was meant, if its packed form is.
LEMMA SendsCarries ==
  ASSUME NEW d, NEW to, NEW m, Sends(d, to, m),
         DatagramIsFinite(d) => Carries(to, Pack(d), m)
  PROVE  AirInv'
<1>1. PICK i \in 1..Len(EncodeDatagram(d)) :
        air' = <<[to |-> to, packed |-> EncodeDatagram(d)[i], meant |-> m]>>
  BY DEF Sends
<1>2. DatagramIsFinite(d) /\ EncodeDatagram(d) = <<Pack(d)>>
  BY <1>1 DEF EncodeDatagram, None
<1>3. air' = <<[to |-> to, packed |-> Pack(d), meant |-> m]>>
  BY <1>1, <1>2
<1> DEFINE one == [to |-> to, packed |-> Pack(d), meant |-> m]
<1>4. one.to = to /\ one.packed = Pack(d) /\ one.meant = m
  OBVIOUS
<1> HIDE DEF one
<1>5. air' = <<one>> /\ air'[1] = one
  BY <1>3 DEF one
<1>6. Carries(one.to, one.packed, one.meant)
  BY <1>2, <1>4
<1> QED
  BY <1>5, <1>6, Zenon DEF AirInv

\* The four kinds, packed, unpacked and put under a name.
LEMMA PackPeerDatagram ==
  ASSUME NEW n, NEW s, NEW d, d = [kind |-> "peer", name |-> n, state |-> s]
  PROVE  /\ Pack(d) = [kind |-> "peer", name |-> n, state |-> PackPeer(s)]
         /\ Unpack(d) = [kind |-> "peer", name |-> n, state |-> UnpackPeer(s)]
         /\ Tagged(d) = [kind |-> "peer", name |-> "ann", state |-> s]
         /\ DatagramIsFinite(d) => AllFinite(PeerState, s)
<1>1. d.kind = "peer" /\ d.state = s /\ d.name = n
  OBVIOUS
<1>2. /\ Pack(d) = [d EXCEPT !.state = PackPeer(@)]
      /\ Unpack(d) = [d EXCEPT !.state = UnpackPeer(@)]
      /\ DatagramIsFinite(d) => AllFinite(PeerState, d.state)
  BY <1>1 DEF Pack, Unpack, DatagramIsFinite
<1>3. ASSUME NEW k, NEW x, NEW y, NEW z
      PROVE  /\ [[kind |-> k, name |-> x, state |-> y] EXCEPT !.state = z]
                = [kind |-> k, name |-> x, state |-> z]
             /\ [[kind |-> k, name |-> x, state |-> y] EXCEPT !.name = z]
                = [kind |-> k, name |-> z, state |-> y]
  OBVIOUS
<1>4. Pack(d) = [d EXCEPT !.state = PackPeer(s)] /\ Unpack(d) = [d EXCEPT !.state = UnpackPeer(s)]
  BY <1>1, <1>2
<1>5. Tagged(d) = [d EXCEPT !.name = "ann"]
  BY DEF Tagged
<1> QED
  BY <1>1, <1>2, <1>3, <1>4, <1>5, Zenon

LEMMA PackVoiceDatagram ==
  ASSUME NEW n, NEW s, NEW d, d = [kind |-> "voice", name |-> n, size |-> s]
  PROVE  /\ Pack(d) = d /\ Unpack(d) = d
         /\ Tagged(d) = [kind |-> "voice", name |-> "ann", size |-> s]
<1>1. d.kind = "voice"
  OBVIOUS
<1>2. Pack(d) = d /\ Unpack(d) = d
  BY <1>1 DEF Pack, Unpack
<1>3. ASSUME NEW k, NEW x, NEW y, NEW z
      PROVE  [[kind |-> k, name |-> x, size |-> y] EXCEPT !.name = z]
                = [kind |-> k, name |-> z, size |-> y]
  OBVIOUS
<1>4. Tagged(d) = [d EXCEPT !.name = "ann"]
  BY DEF Tagged
<1> QED
  BY <1>2, <1>3, <1>4, Zenon

LEMMA PackModsDatagram ==
  ASSUME NEW s, NEW d, d = [kind |-> "mods", size |-> s]
  PROVE  Pack(d) = d /\ Unpack(d) = d
<1>1. d.kind = "mods"
  OBVIOUS
<1> QED
  BY <1>1 DEF Pack, Unpack

\* What is decoded of what is under way, is as was meant.
LEMMA DecodedAsMeant ==
  ASSUME NEW to, NEW d, NEW m, Carries(to, d, m), NEW i \in 1..Len(DecodeDatagram(d))
  PROVE  /\ i = 1 /\ DecodeDatagram(d)[i] = Unpack(d)
         /\ to = "bob" => AsMeant(Unpack(d), m)
         /\ to = "host" => AsMeant(Tagged(Unpack(d)), m)
<1>1. DecodeDatagram(d) = <<Unpack(d)>> \/ DecodeDatagram(d) = <<>>
  BY DEF DecodeDatagram, None
<1>2. i = 1 /\ DecodeDatagram(d)[i] = Unpack(d)
  BY <1>1
<1>3. to \in {"host", "bob"} /\ d.kind = m.kind
  BY DEF Carries
<1>4. CASE /\ d = [kind |-> "peer", name |-> d.name, state |-> d.state]
           /\ m.what \in Pose
           /\ SaysPose(d.state, m.what, IF to = "host" THEN 500 ELSE 1000)
           /\ IF to = "host" THEN m.name = "ann" ELSE d.name = m.name
  <2>1. SaysPose(d.state, m.what, 1000)
    <3>1. CASE to = "host"
      <4>1. SaysPose(d.state, m.what, 500)
        BY <1>4, <3>1
      <4>2. Dequantize(d.state.yaw, PerTurn) \in Int /\ m.what.yaw \in Int
        BY <1>4, <4>1, TurnIsGood, PoseParts DEF SaysPose, Dequantize
      <4>3. TurnedTo(Dequantize(d.state.yaw, PerTurn), m.what.yaw, 1000)
        BY <4>1, <4>2 DEF SaysPose, TurnedTo, Distance, Tau, Pi
      <4> QED
        BY <4>1, <4>3, Zenon DEF SaysPose
    <3> QED
      BY <1>4, <3>1
  <2>2. NearPose(UnpackPeer(d.state), m.what)
    BY <1>4, <2>1, SaidIsNear
  <2>3. Unpack(d) = [kind |-> "peer", name |-> d.name, state |-> UnpackPeer(d.state)]
    BY <1>4, PackPeerDatagram
  <2>4. Tagged(Unpack(d)) = [kind |-> "peer", name |-> "ann", state |-> UnpackPeer(d.state)]
    BY <2>3, PackPeerDatagram
  <2>5. ASSUME NEW n, NEW g, n = m.name, g = [kind |-> "peer", name |-> n, state |-> UnpackPeer(d.state)]
        PROVE  AsMeant(g, m)
    <3>1. g.kind = "peer" /\ g.name = m.name /\ g.state = UnpackPeer(d.state) /\ m.kind = "peer"
      BY <1>3, <1>4, <2>5
    <3> QED
      BY <2>2, <3>1 DEF AsMeant
  <2> QED
    BY <1>2, <1>4, <2>3, <2>4, <2>5
<1>5. CASE /\ d = [kind |-> "voice", name |-> d.name, size |-> m.what]
           /\ IF to = "host" THEN m.name = "ann" ELSE d.name = m.name
  <2>1. /\ Unpack(d) = [kind |-> "voice", name |-> d.name, size |-> m.what]
        /\ Tagged(Unpack(d)) = [kind |-> "voice", name |-> "ann", size |-> m.what]
    BY <1>5, PackVoiceDatagram
  <2>2. ASSUME NEW n, NEW g, n = m.name, g = [kind |-> "voice", name |-> n, size |-> m.what]
        PROVE  AsMeant(g, m)
    <3>1. g.kind = "voice" /\ g.name = m.name /\ g.size = m.what /\ m.kind = "voice"
      BY <1>3, <1>5, <2>2
    <3> QED
      BY <3>1 DEF AsMeant
  <2> QED
    BY <1>2, <1>5, <2>1, <2>2
<1>6. CASE d = [kind |-> "mods", size |-> m.what] /\ to = "bob"
  <2>1. Unpack(d) = d /\ d.kind = "mods" /\ d.size = m.what /\ m.kind = "mods"
    BY <1>3, <1>6, PackModsDatagram
  <2> QED
    BY <1>2, <1>6, <2>1 DEF AsMeant
<1>7. CASE /\ m.what \in Worlds /\ DatagramIsFinite(m.what) /\ d = Pack(m.what)
           /\ d.kind = "world" /\ to = "bob"
  <2>1. Unpack(d).kind = "world" /\ NearWorld(Unpack(d), m.what)
    BY <1>7, WorldNear
  <2>2. m.kind = "world"
    BY <1>3, <1>7
  <2> QED
    BY <1>2, <1>7, <2>1, <2>2 DEF AsMeant
<1> QED
  BY <1>4, <1>5, <1>6, <1>7 DEF Carries

\* What a scene has said of its goat, packed.
LEMMA PosePublished ==
  ASSUME NEW pose \in Poses, NEW n, NEW to, NEW m, Sends(Peer(n, pose), to, m),
         m.kind = "peer", m.what = pose,
         \/ to = "host" /\ m.name = "ann"
         \/ to = "bob" /\ m.name = n
  PROVE  AirInv'
<1> DEFINE d == Peer(n, pose)
<1>1. pose \in Pose
  BY MediaAssumption
<1>2. d = [kind |-> "peer", name |-> n, state |-> Bridged(pose)]
  BY DEF Peer
<1>3. /\ Pack(d) = [kind |-> "peer", name |-> n, state |-> PackPeer(Bridged(pose))]
      /\ DatagramIsFinite(d) => AllFinite(PeerState, Bridged(pose))
  <2> DEFINE s == Bridged(pose)
  <2>1. d = [kind |-> "peer", name |-> n, state |-> s]
    BY <1>2
  <2> HIDE DEF d, s
  <2>2. /\ Pack(d) = [kind |-> "peer", name |-> n, state |-> PackPeer(s)]
        /\ DatagramIsFinite(d) => AllFinite(PeerState, s)
    BY <2>1, PackPeerDatagram
  <2> QED
    BY <2>2 DEF s
<1>4. ASSUME DatagramIsFinite(d)
      PROVE  Carries(to, Pack(d), m)
  <2>1. SaysPose(PackPeer(Bridged(pose)), pose, 500)
    BY <1>1, <1>3, <1>4, SaidOnce
  <2>2. Dequantize(PackPeer(Bridged(pose)).yaw, PerTurn) \in Int /\ pose.yaw \in Int
    BY <1>1, <2>1, TurnIsGood, PoseParts DEF SaysPose, Dequantize
  <2>3. TurnedTo(Dequantize(PackPeer(Bridged(pose)).yaw, PerTurn), pose.yaw, 1000)
    BY <2>1, <2>2 DEF SaysPose, TurnedTo, Distance, Tau, Pi
  <2>4. SaysPose(PackPeer(Bridged(pose)), pose, 1000)
    BY <2>1, <2>3, Zenon DEF SaysPose
  <2> DEFINE p == Pack(d)
  <2>5. p.kind = "peer" /\ p.name = n /\ p.state = PackPeer(Bridged(pose))
    BY <1>3
  <2>6. p = [kind |-> "peer", name |-> p.name, state |-> p.state]
    BY <1>3, <2>5
  <2> HIDE DEF p
  <2>7. Carries(to, p, m)
    BY <1>1, <2>1, <2>4, <2>5, <2>6 DEF Carries
  <2> QED
    BY <2>7 DEF p
<1> QED
  BY <1>4, SendsCarries

LEMMA VoicePublished ==
  ASSUME NEW size, NEW n, NEW to, NEW m, Sends(Voice(n, size), to, m),
         m.kind = "voice", m.what = size,
         \/ to = "host" /\ m.name = "ann"
         \/ to = "bob" /\ m.name = n
  PROVE  AirInv'
<1> DEFINE d == Voice(n, size)
<1>1. d = [kind |-> "voice", name |-> n, size |-> size]
  BY DEF Voice
<1>2. Pack(d) = d
  BY <1>1, PackVoiceDatagram
<1>3. d.kind = "voice" /\ d.name = n /\ d = [kind |-> "voice", name |-> d.name, size |-> m.what]
  BY <1>1
<1> HIDE DEF d
<1>4. Carries(to, d, m)
  BY <1>3 DEF Carries
<1> QED
  BY <1>2, <1>4, SendsCarries DEF d

LEMMA OthersPublished ==
  /\ HostPublishWorld => MediaInv'
  /\ HostPublishMods => MediaInv'
<1>0. ASSUME NEW what, NEW k
      PROVE  LET m == Meant(k, "host", what) IN m.kind = k /\ m.what = what
  BY DEF Meant
<1>1. ASSUME HostPublishWorld PROVE MediaInv'
  <2>1. PICK part \in Worlds : Sends(part, "bob", Meant("world", "host", part))
    BY <1>1 DEF HostPublishWorld
  <2> DEFINE m == Meant("world", "host", part)
  <2>2. m.kind = "world" /\ m.what = part
    BY <1>0
  <2> HIDE DEF m
  <2>3. part.kind = "world" /\ Pack(part).kind = "world"
    BY MediaAssumption DEF Pack
  <2>4. DatagramIsFinite(part) => Carries("bob", Pack(part), m)
    BY <2>2, <2>3 DEF Carries
  <2>5. ShownAsMeant'
    BY <1>1, ShownIsMeant DEF HostPublishWorld, Quiet
  <2> QED
    BY <2>1, <2>4, <2>5, SendsCarries, Zenon DEF MediaInv, m
<1>2. ASSUME HostPublishMods PROVE MediaInv'
  <2>1. PICK size \in Sizes : Sends(Mods(size), "bob", Meant("mods", "host", size))
    BY <1>2 DEF HostPublishMods
  <2> DEFINE m == Meant("mods", "host", size)
             d == Mods(size)
  <2>2. m.kind = "mods" /\ m.what = size
    BY <1>0
  <2>3. d = [kind |-> "mods", size |-> size] /\ d.kind = "mods"
    BY DEF Mods
  <2> HIDE DEF m, d
  <2>4. Pack(d) = d
    BY <2>3, PackModsDatagram
  <2>5. Carries("bob", Pack(d), m)
    BY <2>2, <2>3, <2>4 DEF Carries
  <2>6. ShownAsMeant'
    BY <1>2, ShownIsMeant DEF HostPublishMods, Quiet
  <2> QED
    BY <2>1, <2>5, <2>6, SendsCarries, Zenon DEF MediaInv, m, d
<1> QED
  BY <1>1, <1>2

LEMMA PublishedByPlayers ==
  /\ ClientPublish => MediaInv'
  /\ HostPublish => MediaInv'
  /\ ClientPublishVoice => MediaInv'
  /\ HostPublishVoice => MediaInv'
<1>0. ASSUME NEW what, NEW k, NEW n
      PROVE  LET m == Meant(k, n, what) IN m.kind = k /\ m.name = n /\ m.what = what
  BY DEF Meant
<1>5. ClientPublish \/ HostPublish \/ ClientPublishVoice \/ HostPublishVoice => ShownAsMeant'
  BY ShownIsMeant DEF ClientPublish, HostPublish, ClientPublishVoice, HostPublishVoice, Quiet
<1>1. ASSUME ClientPublish PROVE MediaInv'
  <2>1. PICK pose \in Poses : Sends(Peer("", pose), "host", Meant("peer", "ann", pose))
    BY <1>1 DEF ClientPublish
  <2> DEFINE m == Meant("peer", "ann", pose)
  <2>2. m.kind = "peer" /\ m.name = "ann" /\ m.what = pose
    BY <1>0, Zenon
  <2>3. AirInv'
    BY <2>1, <2>2, PosePublished
  <2> QED
    BY <1>1, <1>5, <2>3, Zenon DEF MediaInv
<1>2. ASSUME HostPublish PROVE MediaInv'
  <2>1. PICK pose \in Poses : Sends(Peer("host", pose), "bob", Meant("peer", "host", pose))
    BY <1>2 DEF HostPublish
  <2> DEFINE m == Meant("peer", "host", pose)
  <2>2. m.kind = "peer" /\ m.name = "host" /\ m.what = pose
    BY <1>0, Zenon
  <2>3. AirInv'
    BY <2>1, <2>2, PosePublished
  <2> QED
    BY <1>2, <1>5, <2>3, Zenon DEF MediaInv
<1>3. ASSUME ClientPublishVoice PROVE MediaInv'
  <2>1. PICK size \in Sizes : Sends(Voice("", size), "host", Meant("voice", "ann", size))
    BY <1>3 DEF ClientPublishVoice
  <2> DEFINE m == Meant("voice", "ann", size)
  <2>2. m.kind = "voice" /\ m.name = "ann" /\ m.what = size
    BY <1>0, Zenon
  <2>3. AirInv'
    BY <2>1, <2>2, VoicePublished
  <2> QED
    BY <1>3, <1>5, <2>3, Zenon DEF MediaInv
<1>4. ASSUME HostPublishVoice PROVE MediaInv'
  <2>1. PICK size \in Sizes : Sends(Voice("host", size), "bob", Meant("voice", "host", size))
    BY <1>4 DEF HostPublishVoice
  <2> DEFINE m == Meant("voice", "host", size)
  <2>2. m.kind = "voice" /\ m.name = "host" /\ m.what = size
    BY <1>0, Zenon
  <2>3. AirInv'
    BY <2>1, <2>2, VoicePublished
  <2> QED
    BY <1>4, <1>5, <2>3, Zenon DEF MediaInv
<1> QED
  BY <1>1, <1>2, <1>3, <1>4

LEMMA UnderWay ==
  ASSUME MediaInv, NEW to, NEW kinds, Arrives(to, kinds)
  PROVE  /\ air[1].to = to /\ air[1].packed.kind \in kinds
         /\ Carries(to, air[1].packed, air[1].meant)
<1>1. PICK i \in 1..Len(air) : air[i].to = to /\ air[i].packed.kind \in kinds
  BY DEF Arrives
<1>2. air # None
  BY <1>1 DEF None
<1>3. air = <<air[1]>> /\ Carries(air[1].to, air[1].packed, air[1].meant)
  BY <1>2 DEF MediaInv, AirInv
<1>4. i = 1
  <2>1. PICK one : air = <<one>>
    BY <1>3
  <2> QED
    BY <1>1, <2>1
<1> QED
  BY <1>1, <1>3, <1>4

\* What the relay shows and sends on under the connection's name.
LEMMA Relayed ==
  ASSUME MediaInv, NEW kinds, kinds \subseteq {"peer", "voice"}, Arrives("host", kinds)
  PROVE  LET d == DecodeDatagram(air[1].packed)[1]
         IN Shows("host", Tagged(d)) /\ Sends(Tagged(d), "bob", air[1].meant) => MediaInv'
<1> DEFINE p == air[1].packed
           m == air[1].meant
           d == DecodeDatagram(p)[1]
           g == Tagged(d)
<1> SUFFICES ASSUME Shows("host", g), Sends(g, "bob", m) PROVE MediaInv'
  OBVIOUS
<1>1. Carries("host", p, m) /\ p.kind \in {"peer", "voice"}
  BY UnderWay
<1> HIDE DEF p, m
<1>2. 1 \in 1..Len(DecodeDatagram(p))
  <2>1. p.kind # "world"
    BY <1>1
  <2> QED
    BY <2>1 DEF DecodeDatagram
<1>3. d = Unpack(p) /\ AsMeant(g, m)
  BY <1>1, <1>2, DecodedAsMeant
<1> HIDE DEF d
<1>4. CASE p.kind = "peer"
  <2>1. /\ p = [kind |-> "peer", name |-> p.name, state |-> p.state] /\ m.what \in Pose
        /\ SaysPose(p.state, m.what, 500) /\ m.name = "ann" /\ p.kind = m.kind
    <3>1. ~(p = [kind |-> "voice", name |-> p.name, size |-> m.what])
          /\ ~(p = [kind |-> "mods", size |-> m.what])
      BY <1>4
    <3> QED
      BY <1>1, <1>4, <3>1 DEF Carries
  <2> DEFINE u == UnpackPeer(p.state)
  <2>2. d = [kind |-> "peer", name |-> p.name, state |-> u]
    BY <1>3, <2>1, PackPeerDatagram
  <2> HIDE DEF u
  <2>3. g = [kind |-> "peer", name |-> "ann", state |-> u]
    BY <2>2, PackPeerDatagram
  <2> HIDE DEF g
  <2>4. /\ Pack(g) = [kind |-> "peer", name |-> "ann", state |-> PackPeer(u)]
        /\ DatagramIsFinite(g) => AllFinite(PeerState, u)
    BY <2>3, PackPeerDatagram
  <2>5. ASSUME DatagramIsFinite(g) PROVE Carries("bob", Pack(g), m)
    <3>1. SaysPose(PackPeer(u), m.what, 1000)
      BY <2>1, <2>4, <2>5, SaidTwice DEF u
    <3> DEFINE q == Pack(g)
    <3>2. /\ q.kind = "peer" /\ q.name = "ann" /\ q.state = PackPeer(u)
          /\ q = [kind |-> "peer", name |-> q.name, state |-> q.state]
      BY <2>4
    <3>3. m.kind = "peer"
      BY <1>4, <2>1
    <3> HIDE DEF q
    <3>4. Carries("bob", q, m)
      BY <2>1, <3>1, <3>2, <3>3 DEF Carries
    <3> QED
      BY <3>4 DEF q
  <2>6. AirInv'
    BY <2>5, SendsCarries
  <2>7. ShownAsMeant'
    <3>1. shown' = <<[listener |-> "host", got |-> g, meant |-> m]>>
      BY DEF Shows, m
    <3> QED
      BY <1>3, <3>1, ShownIsMeant
  <2> QED
    BY <2>6, <2>7, Zenon DEF MediaInv
<1>5. CASE p.kind = "voice"
  <2>1. /\ p = [kind |-> "voice", name |-> p.name, size |-> m.what]
        /\ m.name = "ann" /\ p.kind = m.kind
    <3>1. ~(p = [kind |-> "peer", name |-> p.name, state |-> p.state])
          /\ ~(p = [kind |-> "mods", size |-> m.what])
      BY <1>5
    <3> QED
      BY <1>1, <1>5, <3>1 DEF Carries
  <2>2. d = [kind |-> "voice", name |-> p.name, size |-> m.what]
    BY <1>3, <2>1, PackVoiceDatagram
  <2>3. g = [kind |-> "voice", name |-> "ann", size |-> m.what]
    BY <2>2, PackVoiceDatagram
  <2> HIDE DEF g
  <2>4. Pack(g) = g
    BY <2>3, PackVoiceDatagram
  <2>5. Carries("bob", Pack(g), m)
    <3>1. /\ g.kind = "voice" /\ g.name = "ann"
          /\ g = [kind |-> "voice", name |-> g.name, size |-> m.what]
      BY <2>3
    <3>2. m.kind = "voice"
      BY <1>5, <2>1
    <3>3. Carries("bob", g, m)
      BY <2>1, <3>1, <3>2 DEF Carries
    <3> QED
      BY <2>4, <3>3
  <2>6. AirInv'
    BY <2>5, SendsCarries
  <2>7. ShownAsMeant'
    <3>1. shown' = <<[listener |-> "host", got |-> g, meant |-> m]>>
      BY DEF Shows, m
    <3> QED
      BY <1>3, <3>1, ShownIsMeant
  <2> QED
    BY <2>6, <2>7, Zenon DEF MediaInv
<1> QED
  BY <1>1, <1>4, <1>5

LEMMA ReadByGuests == MediaInv /\ GuestReads => MediaInv'
<1> SUFFICES ASSUME MediaInv, GuestReads PROVE MediaInv'
  OBVIOUS
<1> DEFINE p == air[1].packed
           m == air[1].meant
<1>1. Carries("bob", p, m)
  BY UnderWay DEF GuestReads
<1>2. PICK i \in 1..Len(DecodeDatagram(p)) : Shows("bob", DecodeDatagram(p)[i])
  BY DEF GuestReads
<1>3. shown' = <<[listener |-> "bob", got |-> DecodeDatagram(p)[i], meant |-> m]>>
  BY <1>2 DEF Shows
<1> HIDE DEF p, m
<1>4. AsMeant(DecodeDatagram(p)[i], m)
  BY <1>1, <1>2, DecodedAsMeant
<1>5. ShownAsMeant'
  BY <1>3, <1>4, ShownIsMeant
<1>6. air' = None
  BY DEF GuestReads
<1> QED
  BY <1>5, <1>6, Zenon DEF MediaInv, AirInv

LEMMA MediaStep == MediaInv /\ [RelayNext]_<<vars, media>> => MediaInv'
<1> SUFFICES ASSUME MediaInv, [RelayNext]_<<vars, media>> PROVE MediaInv'
  OBVIOUS
<1>1. CASE RelayPeer
  <2>1. Arrives("host", {"peer"}) /\ {"peer"} \subseteq {"peer", "voice"}
    BY <1>1 DEF RelayPeer
  <2> QED
    BY <1>1, <2>1, Relayed DEF RelayPeer
<1>2. CASE RelayVoice
  <2>1. Arrives("host", {"voice"}) /\ {"voice"} \subseteq {"peer", "voice"}
    BY <1>2 DEF RelayVoice
  <2> QED
    BY <1>2, <2>1, Relayed DEF RelayVoice
<1>3. CASE DropVoice \/ Lost
  <2>1. air' = None /\ shown' = shown
    BY <1>3 DEF DropVoice, Lost
  <2> QED
    BY <2>1, ShownIsMeant, Zenon DEF MediaInv, AirInv
<1>4. CASE (Tick /\ UNCHANGED media) \/ UNCHANGED <<vars, media>>
  <2>1. air' = air /\ shown' = shown
    BY <1>4 DEF media
  <2> QED
    BY <2>1, ShownIsMeant DEF MediaInv, AirInv
<1> QED
  BY <1>1, <1>2, <1>3, <1>4, ReadByGuests, PublishedByPlayers, OthersPublished DEF RelayNext

\* A scene shows what another meant (`ShownAsMeant`): for any poses, worlds and
\* sizes and any burst limit, however a datagram was rounded, relayed or lost.
THEOREM ScenesShowWhatWasMeant == RelaySpec => []ShownAsMeant
<1>1. RelayInit => MediaInv
  BY DEF RelayInit, MediaInv, AirInv, ShownAsMeant, None
<1>2. MediaInv => ShownAsMeant
  BY DEF MediaInv
<1> QED
  BY <1>1, <1>2, MediaStep, PTL DEF RelaySpec

-----------------------------------------------------------------------------
(* Chat. *)

\* The connections that are in the server's table.
InSeat(c) == job[c].stage \in {"settling", "waiting", "routing", "unknown", "sending"}

Seats ==
  /\ connections = {[name |-> named[c], conn |-> c] : c \in {d \in Conns : InSeat(d)}}
  /\ \A c, d \in Conns : InSeat(c) /\ InSeat(d) /\ named[c] = named[d] => c = d
  /\ \A c \in Conns : InSeat(c) => named[c] # HostName
  /\ IsFiniteSet(connections)
  /\ job[Host].stage \in {"waiting", "routing", "unknown", "sending"}
  /\ \A c \in Conns : job[c].stage = "out" <=> link[c] = "none"

\* s has a line in hand.
Busy(s) == job[s].stage \in {"routing", "unknown", "sending"}

LinesOf(s) ==
  /\ Busy(s) => job[s].line.from = s /\ job[s].line.n <= spoken
  /\ job[s].stage \in {"unknown", "sending"} => job[s].line \in answered
  /\ \A i \in 1 .. Len(said[s]) :
       /\ said[s][i].from = s
       /\ said[s][i].n <= spoken
       /\ Busy(s) => job[s].line.n < said[s][i].n
       /\ \A j \in 1 .. Len(said[s]) : i < j => said[s][i].n < said[s][j].n

Lines == \A s \in Speakers : LinesOf(s)

\* What its sender still has to say was said after l.
Settled(l) ==
  /\ l.n <= spoken
  /\ \A i \in 1 .. Len(said[l.from]) : l.n < said[l.from][i].n
  /\ Busy(l.from) => l.n <= job[l.from].line.n
  /\ job[l.from].stage = "routing" => l.n < job[l.from].line.n

Answers == \A l \in answered : Settled(l)

\* m was sent to c before anything that s has still to send.
Before(m, c, s) ==
  m.line.from = s =>
    /\ job[s].stage = "unknown" => m.line.n < job[s].line.n
    /\ job[s].stage = "sending" =>
         \/ m.line.n < job[s].line.n
         \/ m.line.n = job[s].line.n /\ [conn |-> c, kind |-> m.kind] \notin job[s].to

Placed(m, c) == m.line \in answered /\ \A s \in Speakers : Before(m, c, s)

\* Two messages of one sender on one wire, the first ahead of the other.
InOrder(first, other) ==
  first.line.from = other.line.from =>
    \/ first.line.n < other.line.n
    \/ first.line.n = other.line.n /\ first.kind # other.kind

Queued(c) ==
  \A i \in 1 .. Len(wire[c]) :
    /\ Placed(wire[c][i], c)
    /\ \A j \in 1 .. Len(wire[c]) : i < j => InOrder(wire[c][i], wire[c][j])

Wires == \A c \in Conns : Queued(c)

Receivers ==
  \A s \in Speakers : job[s].stage = "sending" => \A d \in job[s].to : link[d.conn] # "none"

ChatInv == ChatTypeOK /\ Seats /\ Lines /\ Answers /\ Wires /\ Receivers

-----------------------------------------------------------------------------
(* Types. *)

LEMMA ChatTypes ==
  ASSUME ChatTypeOK
  PROVE  /\ named \in [Conns -> PlayerNames]
         /\ link \in [Conns -> {"none", "up", "down"}]
         /\ said \in [Speakers -> Seq(Line)]
         /\ spoken \in Nat
         /\ job \in [Speakers -> Job]
         /\ wire \in [Conns -> Seq(Messages)]
         /\ console \in [Speakers -> Seq(Messages)]
         /\ answered \subseteq Line
         /\ Host \in Speakers /\ Conns \subseteq Speakers /\ Host \notin Conns
         /\ \A s \in Speakers : s # Host => s \in Conns
BY ChatAssumption DEF ChatTypeOK, Speakers

\* What a job holds, by the stage it is at.
LEMMA JobParts ==
  ASSUME NEW j \in Job
  PROVE  /\ j.stage \in {"out", "settling", "waiting", "done", "routing",
                         "unknown", "sending"}
         /\ j.stage \in {"routing", "unknown", "sending"} => j.line \in Line
         /\ j.stage = "sending" =>
              /\ j.to \in SUBSET [conn : Conns, kind : Kind]
              /\ j.host \in Kind \cup {"none"}
              /\ j = Sending(j.line, j.to, j.host)
BY DEF Job, Sending

LEMMA JobsAreMade ==
  /\ \A stage \in {"out", "settling", "waiting", "done"} : At(stage) \in Job
  /\ \A stage \in {"routing", "unknown"}, line \in Line : With(stage, line) \in Job
  /\ \A line \in Line, to \in SUBSET [conn : Conns, kind : Kind], host \in Kind \cup {"none"} :
       Sending(line, to, host) \in Job
BY DEF Job, At, With, Sending

LEMMA ForIsTyped ==
  ASSUME NEW conns \in SUBSET Conns, NEW kind \in Kind
  PROVE  For(conns, kind) \in SUBSET [conn : Conns, kind : Kind]
BY DEF For

LEMMA WhoIsConnected ==
  ASSUME ChatTypeOK
  PROVE  /\ Every \in SUBSET Conns
         /\ \A name : ConnectionOf(name) \in SUBSET Conns
BY DEF ChatTypeOK, Every, ConnectionOf

LEMMA PlanIsAJob ==
  ASSUME ChatTypeOK, NEW s \in Speakers, NEW line \in Line
  PROVE  Plan(s, line) \in Job
<1>1. /\ For(Every, "line") \in SUBSET [conn : Conns, kind : Kind]
      /\ \A name : For(ConnectionOf(name), "line") \in SUBSET [conn : Conns, kind : Kind]
      /\ \A name : For(ConnectionOf(name), "echo") \in SUBSET [conn : Conns, kind : Kind]
  BY WhoIsConnected, ForIsTyped DEF Kind
<1>2. \A target : HostSees(target, s) \in Kind \cup {"none"}
  BY DEF HostSees, Kind
<1>3. "line" \in Kind
  BY DEF Kind
<1>4. CASE line.to = All
  BY <1>1, <1>3, <1>4, JobsAreMade DEF Plan
<1>5. CASE line.to # All
  <2> DEFINE target == FirstWord(line.to)
  <2>1. CASE target \notin Roster
    BY <1>5, <2>1, JobsAreMade DEF Plan
  <2>2. CASE target \in Roster
    <3> DEFINE to == For(ConnectionOf(target), "line") \cup For(ConnectionOf(NameOf(s)), "echo")
    <3>1. to \in SUBSET [conn : Conns, kind : Kind]
      BY <1>1
    <3>2. Plan(s, line) = Sending(line, to, HostSees(target, s))
      BY <1>5, <2>2 DEF Plan
    <3>3. HostSees(target, s) \in Kind \cup {"none"}
      BY <1>2
    <3> HIDE DEF to
    <3>4. QED
      BY <3>1, <3>2, <3>3, JobsAreMade
  <2>3. QED
    BY <2>1, <2>2
<1>6. QED
  BY <1>4, <1>5

\* Sending to one receiver leaves the rest of the job.
LEMMA OneIsSent ==
  ASSUME ChatTypeOK, NEW s \in Speakers, SendOne(s)
  PROVE  \E d \in job[s].to :
           /\ d \in [conn : Conns, kind : Kind]
           /\ wire' = Sent(d.conn, Message(job[s].line, d.kind))
           /\ job' = [job EXCEPT ![s] = Sending(job[s].line, job[s].to \ {d}, job[s].host)]
           /\ Message(job[s].line, d.kind) \in Messages
           /\ job[s].stage = "sending"
           /\ job[s].line \in Line
           /\ job[s].to \in SUBSET [conn : Conns, kind : Kind]
           /\ job[s].host \in Kind \cup {"none"}
           /\ UNCHANGED <<connections, named, link, said, spoken, console, answered>>
<1>1. job \in [Speakers -> Job] /\ job[s] \in Job /\ job[s].stage = "sending"
  BY ChatTypes DEF SendOne
<1>2. /\ job[s].line \in Line
      /\ job[s].to \in SUBSET [conn : Conns, kind : Kind]
      /\ job[s].host \in Kind \cup {"none"}
      /\ job[s] = Sending(job[s].line, job[s].to, job[s].host)
  BY <1>1, JobParts
<1>3. PICK d \in job[s].to :
        /\ wire' = Sent(d.conn, Message(job[s].line, d.kind))
        /\ job' = [job EXCEPT ![s].to = @ \ {d}]
  BY DEF SendOne
<1>4. [job[s] EXCEPT !.to = @ \ {d}] = Sending(job[s].line, job[s].to \ {d}, job[s].host)
  BY <1>2 DEF Sending
<1>5. job' = [job EXCEPT ![s] = [job[s] EXCEPT !.to = @ \ {d}]]
  BY <1>1, <1>3
<1>6. Message(job[s].line, d.kind) \in Messages
  BY <1>2 DEF Message, Messages
<1>7. UNCHANGED <<connections, named, link, said, spoken, console, answered>>
  BY DEF SendOne, seatingVars
<1>8. d \in [conn : Conns, kind : Kind]
  BY <1>2
<1>9. job' = [job EXCEPT ![s] = Sending(job[s].line, job[s].to \ {d}, job[s].host)]
  BY <1>4, <1>5
<1>10. QED
  BY <1>1, <1>2, <1>3, <1>6, <1>7, <1>8, <1>9

\* What a join gives: a name that is free.
LEMMA EnterPicksFreeName ==
  ASSUME ChatTypeOK, Seats, NEW c \in Conns, Enter(c)
  PROVE  \E name \in PlayerNames :
           /\ name \notin Roster
           /\ connections' = connections \cup {[name |-> name, conn |-> c]}
           /\ named' = [named EXCEPT ![c] = name]
           /\ job[c].stage = "out" /\ job' = [job EXCEPT ![c] = At("settling")]
           /\ link' = [link EXCEPT ![c] = "up"]
           /\ UNCHANGED <<said, spoken, wire, console, answered>>
<1>1. IsFiniteSet({e.name : e \in connections})
  <2> DEFINE names == {e.name : e \in connections}
             nameOf == [e \in connections |-> e.name]
  <2>1. nameOf \in Surjection(connections, names)
    BY DEF Surjection
  <2>2. IsFiniteSet(connections)
    BY DEF Seats
  <2> HIDE DEF names, nameOf
  <2>3. IsFiniteSet(names)
    BY <2>1, <2>2, FS_Surjection
  <2>4. QED
    BY <2>3 DEF names
<1>2. IsFiniteSet(Roster)
  BY <1>1, FS_Singleton, FS_Union DEF Roster
<1>3. PICK desired \in Requests :
        LET name == UniqueName(desired, Roster)
        IN  /\ connections' = connections \cup {[name |-> name, conn |-> c]}
            /\ named' = [named EXCEPT ![c] = name]
  BY DEF Enter
<1>4. desired \in PlayerNames
  BY ChatAssumption
<1> DEFINE name == UniqueName(desired, Roster)
<1>5. name \in PlayerNames /\ name \notin Roster
  BY <1>2, <1>4, UniqueNameIsFree
<1>6. /\ connections' = connections \cup {[name |-> name, conn |-> c]}
      /\ named' = [named EXCEPT ![c] = name]
  BY <1>3
<1> HIDE DEF name
<1>7. QED
  BY <1>5, <1>6 DEF Enter, Become

LEMMA HeadAndTail ==
  ASSUME NEW S, NEW q \in Seq(S), q # << >>
  PROVE  /\ Head(q) \in S /\ Head(q) = q[1] /\ 1 \in 1 .. Len(q)
         /\ Tail(q) \in Seq(S)
         /\ Len(q) = Len(Tail(q)) + 1 /\ Len(Tail(q)) \in Nat
         /\ \A i \in 1 .. Len(Tail(q)) : Tail(q)[i] = q[i + 1] /\ i + 1 \in 1 .. Len(q)
  OBVIOUS

LEMMA AppendParts ==
  ASSUME NEW S, NEW q \in Seq(S), NEW x \in S
  PROVE  /\ Append(q, x) \in Seq(S)
         /\ Len(q) \in Nat
         /\ Len(Append(q, x)) = Len(q) + 1
         /\ \A i \in 1 .. Len(q) : Append(q, x)[i] = q[i]
         /\ Append(q, x)[Len(q) + 1] = x
         /\ \A i \in 1 .. Len(q) + 1 : i \in 1 .. Len(q) \/ i = Len(q) + 1
  OBVIOUS

\* The steps, without the names of the groups they come in.
LEMMA ChatSteps ==
  ASSUME ChatNext
  PROVE  \/ \E c \in Conns :
              \/ Enter(c) \/ Serve(c) \/ Lose(c) \/ Quit(c) \/ Read(c)
              \/ Hear(c) \/ Deaf(c)
         \/ \E s \in Speakers :
              \/ Say(s) \/ Route(s) \/ FindSender(s) \/ SendOne(s) \/ Finish(s)
         \/ ReadHost
BY DEF ChatNext, Handler, Player, Routing

\* A line that is said.
LEMMA SayAdds ==
  ASSUME ChatTypeOK, NEW s \in Speakers, Say(s)
  PROVE  \E line \in Line :
           /\ line.from = s /\ line.n = spoken + 1
           /\ said' = [said EXCEPT ![s] = Append(@, line)]
           /\ spoken' = spoken + 1
           /\ s # Host => link[s] = "up"
           /\ UNCHANGED <<connections, named, link, job, wire, console, answered>>
<1>1. PICK whom \in Addressees \cup {All} :
        said' = [said EXCEPT ![s] = Append(@, [from |-> s, n |-> spoken + 1, to |-> whom])]
  BY DEF Say
<1> DEFINE line == [from |-> s, n |-> spoken + 1, to |-> whom]
<1>2. line \in Line /\ line.from = s /\ line.n = spoken + 1
  BY ChatTypes DEF Line
<1>3. said' = [said EXCEPT ![s] = Append(@, line)]
  BY <1>1
<1> HIDE DEF line
<1>4. QED
  BY <1>2, <1>3 DEF Say, seatingVars

LEMMA ChatInitTypes == ChatInit => ChatTypeOK
<1> SUFFICES ASSUME ChatInit PROVE ChatTypeOK
  OBVIOUS
<1>1. \A s \in Speakers : At(IF s = Host THEN "waiting" ELSE "out") \in Job
  BY JobsAreMade
<1>2. job \in [Speakers -> Job]
  BY <1>1 DEF ChatInit
<1>3. QED
  BY <1>2, ChatAssumption DEF ChatInit, ChatTypeOK

LEMMA ChatNextTypes == ChatTypeOK /\ Seats /\ [ChatNext]_chatVars => ChatTypeOK'
<1> SUFFICES ASSUME ChatTypeOK, Seats, [ChatNext]_chatVars PROVE ChatTypeOK'
  OBVIOUS
<1> USE ChatTypes
<1>1. /\ named \in [Conns -> PlayerNames]
      /\ link \in [Conns -> {"none", "up", "down"}]
      /\ said \in [Speakers -> Seq(Line)]
      /\ spoken \in Nat
      /\ job \in [Speakers -> Job]
      /\ wire \in [Conns -> Seq(Messages)]
      /\ console \in [Speakers -> Seq(Messages)]
      /\ answered \subseteq Line
      /\ connections \subseteq [name : PlayerNames, conn : Conns]
      /\ Conns \subseteq Speakers /\ Host \in Speakers
  BY DEF ChatTypeOK
<1>2. ASSUME NEW c \in Conns, Enter(c) PROVE ChatTypeOK'
  <2>1. PICK name \in PlayerNames :
           /\ connections' = connections \cup {[name |-> name, conn |-> c]}
           /\ named' = [named EXCEPT ![c] = name]
           /\ job' = [job EXCEPT ![c] = At("settling")]
           /\ link' = [link EXCEPT ![c] = "up"]
           /\ UNCHANGED <<said, spoken, wire, console, answered>>
    BY <1>2, EnterPicksFreeName
  <2>2. At("settling") \in Job
    BY JobsAreMade
  <2>3. QED
    BY <1>1, <2>1, <2>2 DEF ChatTypeOK
<1>3. ASSUME NEW c \in Conns, Serve(c) PROVE ChatTypeOK'
  <2>1. At("waiting") \in Job
    BY JobsAreMade
  <2>2. QED
    BY <1>1, <1>3, <2>1 DEF Serve, Become, seatingVars, ChatTypeOK
<1>4. ASSUME NEW c \in Conns, Lose(c) PROVE ChatTypeOK'
  BY <1>1, <1>4 DEF Lose, seatingVars, ChatTypeOK
<1>5. ASSUME NEW c \in Conns, Quit(c) PROVE ChatTypeOK'
  <2>1. At("done") \in Job /\ << >> \in Seq(Line)
    BY JobsAreMade
  <2>2. QED
    BY <1>1, <1>5, <2>1 DEF Quit, Become, ChatTypeOK
<1>6. ASSUME NEW s \in Speakers, Say(s) PROVE ChatTypeOK'
  <2>1. PICK line \in Line :
           /\ said' = [said EXCEPT ![s] = Append(@, line)]
           /\ spoken' = spoken + 1
           /\ UNCHANGED <<connections, named, link, job, wire, console, answered>>
    BY <1>6, SayAdds
  <2>2. Append(said[s], line) \in Seq(Line)
    BY <1>1
  <2>3. QED
    BY <1>1, <2>1, <2>2 DEF ChatTypeOK
<1>7. ASSUME NEW c \in Conns, Read(c) PROVE ChatTypeOK'
  <2>1. /\ Head(said[c]) \in Line /\ Tail(said[c]) \in Seq(Line)
    BY <1>1, <1>7, HeadAndTail DEF Read
  <2>2. For({c}, "slow") \in SUBSET [conn : Conns, kind : Kind]
    BY ForIsTyped DEF Kind
  <2>3. /\ With("routing", Head(said[c])) \in Job
        /\ Sending(Head(said[c]), For({c}, "slow"), "none") \in Job
    BY <2>1, <2>2, JobsAreMade
  <2>4. /\ \E j \in Job : job' = [job EXCEPT ![c] = j]
        /\ answered' \subseteq answered \cup {Head(said[c])}
        /\ said' = [said EXCEPT ![c] = Tail(said[c])]
        /\ UNCHANGED <<connections, named, link, spoken, wire, console>>
    BY <1>1, <1>7, <2>3 DEF Read, Become, seatingVars
  <2>5. QED
    BY <1>1, <2>1, <2>4 DEF ChatTypeOK
<1>8. CASE ReadHost
  <2>1. /\ Head(said[Host]) \in Line /\ Tail(said[Host]) \in Seq(Line)
    BY <1>1, <1>8, HeadAndTail DEF ReadHost
  <2>2. With("routing", Head(said[Host])) \in Job
    BY <2>1, JobsAreMade
  <2>3. QED
    BY <1>1, <1>8, <2>1, <2>2 DEF ReadHost, Become, seatingVars, ChatTypeOK
<1>9. ASSUME NEW s \in Speakers, Route(s) PROVE ChatTypeOK'
  <2>1. job[s].line \in Line
    BY <1>1, <1>9, JobParts DEF Route
  <2>2. Plan(s, job[s].line) \in Job
    BY <2>1, PlanIsAJob
  <2>3. QED
    BY <1>1, <1>9, <2>1, <2>2 DEF Route, Become, seatingVars, ChatTypeOK
<1>10. ASSUME NEW s \in Speakers, FindSender(s) PROVE ChatTypeOK'
  <2> DEFINE back == ConnectionOf(NameOf(s))
             host == IF back = {} THEN "unknown" ELSE "none"
  <2>1. job[s].line \in Line
    BY <1>1, <1>10, JobParts DEF FindSender
  <2>2. For(back, "unknown") \in SUBSET [conn : Conns, kind : Kind]
    BY WhoIsConnected, ForIsTyped DEF Kind
  <2>3. host \in Kind \cup {"none"}
    BY DEF Kind
  <2>4. Sending(job[s].line, For(back, "unknown"), host) \in Job
    BY <2>1, <2>2, <2>3, JobsAreMade
  <2>5. job' = [job EXCEPT ![s] = Sending(job[s].line, For(back, "unknown"), host)]
    BY <1>10 DEF FindSender, Become
  <2> HIDE DEF back, host
  <2>6. QED
    BY <1>1, <1>10, <2>4, <2>5 DEF FindSender, seatingVars, ChatTypeOK
<1>11. ASSUME NEW s \in Speakers, SendOne(s) PROVE ChatTypeOK'
  <2>1. PICK d \in job[s].to :
           /\ d \in [conn : Conns, kind : Kind]
           /\ wire' = Sent(d.conn, Message(job[s].line, d.kind))
           /\ job' = [job EXCEPT ![s] = Sending(job[s].line, job[s].to \ {d}, job[s].host)]
           /\ Message(job[s].line, d.kind) \in Messages
           /\ job[s].line \in Line
           /\ job[s].to \in SUBSET [conn : Conns, kind : Kind]
           /\ job[s].host \in Kind \cup {"none"}
           /\ UNCHANGED <<connections, named, link, said, spoken, console, answered>>
    BY <1>11, OneIsSent
  <2>2. Sending(job[s].line, job[s].to \ {d}, job[s].host) \in Job
    BY <2>1, JobsAreMade
  <2>3. wire' \in [Conns -> Seq(Messages)]
    BY <1>1, <2>1 DEF Sent
  <2>4. QED
    BY <1>1, <2>1, <2>2, <2>3 DEF ChatTypeOK
<1>12. ASSUME NEW s \in Speakers, Finish(s) PROVE ChatTypeOK'
  <2>1. job[s].line \in Line /\ job[s].host \in Kind \cup {"none"}
    BY <1>1, <1>12, JobParts DEF Finish
  <2>2. job[s].host # "none" => Message(job[s].line, job[s].host) \in Messages
    BY <2>1 DEF Message, Messages
  <2>3. At("waiting") \in Job
    BY JobsAreMade
  <2>4. console' \in [Speakers -> Seq(Messages)]
    BY <1>1, <1>12, <2>2 DEF Finish
  <2>5. QED
    BY <1>1, <1>12, <2>3, <2>4 DEF Finish, Become, seatingVars, ChatTypeOK
<1>13. ASSUME NEW c \in Conns, Hear(c) PROVE ChatTypeOK'
  <2>1. Head(wire[c]) \in Messages /\ Tail(wire[c]) \in Seq(Messages)
    BY <1>1, <1>13, HeadAndTail DEF Hear
  <2>2. QED
    BY <1>1, <1>13, <2>1 DEF Hear, seatingVars, ChatTypeOK
<1>14. ASSUME NEW c \in Conns, Deaf(c) PROVE ChatTypeOK'
  <2>1. << >> \in Seq(Messages)
    OBVIOUS
  <2>2. QED
    BY <1>1, <1>14, <2>1 DEF Deaf, seatingVars, ChatTypeOK
<1>15. CASE UNCHANGED chatVars
  BY <1>1, <1>15 DEF chatVars, seatingVars, ChatTypeOK
<1>16. QED
  BY <1>2, <1>3, <1>4, <1>5, <1>6, <1>7, <1>8, <1>9, <1>10, <1>11, <1>12,
     <1>13, <1>14, <1>15, ChatSteps

-----------------------------------------------------------------------------
(* Seats. *)

LEMMA PlanParts ==
  ASSUME NEW s, NEW line
  PROVE  /\ Plan(s, line).stage \in {"unknown", "sending"}
         /\ Plan(s, line).line = line
<1>1. CASE line.to = All
  BY <1>1 DEF Plan, Sending
<1>2. CASE line.to # All /\ FirstWord(line.to) \notin Roster
  BY <1>2 DEF Plan, With
<1>3. CASE line.to # All /\ FirstWord(line.to) \in Roster
  BY <1>3 DEF Plan, Sending
<1>4. QED
  BY <1>1, <1>2, <1>3

\* Where the steps of a handler lead.
LEMMA JobsMove ==
  ASSUME ChatTypeOK, NEW s \in Speakers,
         (s \in Conns /\ (Serve(s) \/ Read(s))) \/ Route(s) \/ FindSender(s) \/ SendOne(s)
           \/ Finish(s) \/ (s = Host /\ ReadHost)
  PROVE  /\ UNCHANGED <<connections, named, link>>
         /\ \E j : job' = [job EXCEPT ![s] = j] /\ j.stage \in {"waiting", "routing", "unknown", "sending"}
         /\ job[s].stage \in {"settling", "waiting", "routing", "unknown", "sending"}
         /\ job[s].stage = "settling" => s \in Conns
<1>1. CASE s \in Conns /\ Serve(s)
  <2>1. At("waiting").stage = "waiting"
    BY DEF At
  <2>2. QED
    BY <1>1, <2>1 DEF Serve, Become, seatingVars
<1>2. CASE s \in Conns /\ Read(s)
  BY <1>2 DEF Read, Become, With, Sending, seatingVars
<1>3. CASE Route(s)
  <2>1. Plan(s, job[s].line).stage \in {"unknown", "sending"}
    BY PlanParts
  <2>2. job' = [job EXCEPT ![s] = Plan(s, job[s].line)]
    BY <1>3 DEF Route, Become
  <2>3. QED
    BY <1>3, <2>1, <2>2 DEF Route, seatingVars
<1>4. CASE FindSender(s)
  <2>1. \A line, to, host : Sending(line, to, host).stage = "sending"
    BY DEF Sending
  <2>2. \E j : job' = [job EXCEPT ![s] = j] /\ j.stage = "sending"
    BY <1>4, <2>1 DEF FindSender, Become
  <2>3. QED
    BY <1>4, <2>2 DEF FindSender, seatingVars
<1>5. CASE SendOne(s)
  <2>1. PICK d \in job[s].to :
           /\ job' = [job EXCEPT ![s] = Sending(job[s].line, job[s].to \ {d}, job[s].host)]
           /\ job[s].stage = "sending"
           /\ UNCHANGED <<connections, named, link>>
    BY <1>5, OneIsSent
  <2>2. Sending(job[s].line, job[s].to \ {d}, job[s].host).stage = "sending"
    BY DEF Sending
  <2>3. QED
    BY <2>1, <2>2
<1>6. CASE Finish(s)
  BY <1>6 DEF Finish, Become, At, seatingVars
<1>7. CASE s = Host /\ ReadHost
  BY <1>7 DEF ReadHost, Become, With, seatingVars
<1>8. QED
  BY <1>1, <1>2, <1>3, <1>4, <1>5, <1>6, <1>7

\* The table is what it was when nobody took or left a seat.
LEMMA SeatsStay ==
  ASSUME ChatTypeOK, Seats, UNCHANGED <<connections, named>>,
         \A c \in Conns : InSeat(c)' <=> InSeat(c),
         job'[Host].stage \in {"waiting", "routing", "unknown", "sending"},
         \A c \in Conns : job'[c].stage = "out" <=> link'[c] = "none"
  PROVE  Seats'
<1>1. {d \in Conns : InSeat(d)}' = {d \in Conns : InSeat(d)}
  OBVIOUS
<1>2. QED
  BY <1>1 DEF Seats

LEMMA NextSeats == ChatTypeOK /\ Seats /\ [ChatNext]_chatVars => Seats'
<1> SUFFICES ASSUME ChatTypeOK, Seats, [ChatNext]_chatVars PROVE Seats'
  OBVIOUS
<1>1. /\ named \in [Conns -> PlayerNames]
      /\ link \in [Conns -> {"none", "up", "down"}]
      /\ job \in [Speakers -> Job]
      /\ connections \subseteq [name : PlayerNames, conn : Conns]
      /\ Conns \subseteq Speakers /\ Host \in Speakers /\ Host \notin Conns
  BY ChatTypes DEF ChatTypeOK
<1>2. ASSUME NEW c \in Conns, Enter(c) PROVE Seats'
  <2>1. PICK name \in PlayerNames :
           /\ name \notin Roster
           /\ connections' = connections \cup {[name |-> name, conn |-> c]}
           /\ named' = [named EXCEPT ![c] = name]
           /\ job[c].stage = "out" /\ job' = [job EXCEPT ![c] = At("settling")]
           /\ link' = [link EXCEPT ![c] = "up"]
    BY <1>2, EnterPicksFreeName
  <2>2. InSeat(c)' /\ ~InSeat(c)
    BY <1>1, <2>1 DEF InSeat, At
  <2>3. \A d \in Conns : d # c => (InSeat(d)' <=> InSeat(d)) /\ named'[d] = named[d]
    BY <1>1, <2>1 DEF InSeat
  <2>4. named'[c] = name
    BY <1>1, <2>1
  <2>5. connections' = {[name |-> named'[d], conn |-> d] : d \in {e \in Conns : InSeat(e)'}}
    <3>1. connections = {[name |-> named[d], conn |-> d] : d \in {e \in Conns : InSeat(e)}}
      BY DEF Seats
    <3>2. {e \in Conns : InSeat(e)'} = {e \in Conns : InSeat(e)} \cup {c}
      BY <2>2, <2>3
    <3>3. \A d \in {e \in Conns : InSeat(e)} : named'[d] = named[d]
      BY <2>2, <2>3
    <3>4. QED
      BY <2>1, <2>4, <3>1, <3>2, <3>3
  <2>6. \A d \in Conns : InSeat(d) => named[d] \in Roster
    <3>1. ASSUME NEW d \in Conns, InSeat(d)
          PROVE  [name |-> named[d], conn |-> d] \in connections
      BY <3>1 DEF Seats
    <3>2. \A e \in connections : e.name \in Roster
      BY DEF Roster
    <3>3. QED
      BY <3>1, <3>2
  <2>7. name # HostName
    BY <2>1 DEF Roster
  <2>8. \A d, e \in Conns : InSeat(d)' /\ InSeat(e)' /\ named'[d] = named'[e] => d = e
    BY <2>1, <2>2, <2>3, <2>4, <2>6 DEF Seats
  <2>9. \A d \in Conns : InSeat(d)' => named'[d] # HostName
    BY <2>2, <2>3, <2>4, <2>7 DEF Seats
  <2>10. IsFiniteSet(connections')
    BY <2>1, FS_AddElement DEF Seats
  <2>11. job'[Host].stage \in {"waiting", "routing", "unknown", "sending"}
    BY <1>1, <2>1 DEF Seats
  <2>12. \A d \in Conns : job'[d].stage = "out" <=> link'[d] = "none"
    BY <1>1, <2>1 DEF Seats, At
  <2>13. QED
    BY <2>5, <2>8, <2>9, <2>10, <2>11, <2>12 DEF Seats
<1>3. ASSUME NEW s \in Speakers,
             (s \in Conns /\ (Serve(s) \/ Read(s))) \/ Route(s) \/ FindSender(s) \/ SendOne(s)
               \/ Finish(s) \/ (s = Host /\ ReadHost)
      PROVE  Seats'
  <2>1. UNCHANGED <<connections, named, link>>
    BY <1>3, JobsMove
  <2>2. PICK j : /\ job' = [job EXCEPT ![s] = j]
                 /\ j.stage \in {"waiting", "routing", "unknown", "sending"}
    BY <1>3, JobsMove
  <2>3. /\ job[s].stage \in {"settling", "waiting", "routing", "unknown", "sending"}
    BY <1>3, JobsMove
  <2>4. job'[s] = j /\ \A t \in Speakers : t # s => job'[t] = job[t]
    BY <1>1, <2>2
  <2>5. \A c \in Conns : InSeat(c)' <=> InSeat(c)
    BY <1>1, <2>2, <2>3, <2>4 DEF InSeat
  <2>6. job'[Host].stage \in {"waiting", "routing", "unknown", "sending"}
    BY <1>1, <2>2, <2>4 DEF Seats
  <2>7. \A c \in Conns : job'[c].stage = "out" <=> link'[c] = "none"
    BY <1>1, <2>1, <2>2, <2>3, <2>4 DEF Seats
  <2>8. QED
    BY <2>1, <2>5, <2>6, <2>7, SeatsStay
<1>4. ASSUME NEW c \in Conns, Lose(c) PROVE Seats'
  <2>1. UNCHANGED <<connections, named, job>>
    BY <1>4 DEF Lose, seatingVars
  <2>2. \A d \in Conns : link'[d] = "none" <=> link[d] = "none"
    BY <1>1, <1>4 DEF Lose
  <2>3. \A d \in Conns : InSeat(d)' <=> InSeat(d)
    BY <2>1 DEF InSeat
  <2>4. QED
    BY <2>1, <2>2, <2>3, SeatsStay DEF Seats
<1>5. ASSUME NEW c \in Conns, Quit(c) PROVE Seats'
  <2>1. /\ connections' = {e \in connections : e.name # named[c]}
        /\ job' = [job EXCEPT ![c] = At("done")]
        /\ UNCHANGED <<named, link>>
        /\ InSeat(c)
    BY <1>5 DEF Quit, Become, InSeat
  <2>2. ~InSeat(c)' /\ \A d \in Conns : d # c => (InSeat(d)' <=> InSeat(d))
    BY <1>1, <2>1 DEF InSeat, At
  <2>3. connections' = {[name |-> named'[d], conn |-> d] : d \in {e \in Conns : InSeat(e)'}}
    <3>1. connections = {[name |-> named[d], conn |-> d] : d \in {e \in Conns : InSeat(e)}}
      BY DEF Seats
    <3>2. {e \in Conns : InSeat(e)'} = {e \in Conns : InSeat(e)} \ {c}
      BY <2>2
    <3>3. \A d \in Conns : InSeat(d) => (named[d] # named[c] <=> d # c)
      BY <2>1 DEF Seats
    <3>4. QED
      BY <2>1, <3>1, <3>2, <3>3
  <2>4. \A d, e \in Conns : InSeat(d)' /\ InSeat(e)' /\ named'[d] = named'[e] => d = e
    BY <2>1, <2>2 DEF Seats
  <2>5. \A d \in Conns : InSeat(d)' => named'[d] # HostName
    BY <2>1, <2>2 DEF Seats
  <2>6. IsFiniteSet(connections')
    BY <2>1, FS_Subset DEF Seats
  <2>7. job'[Host].stage \in {"waiting", "routing", "unknown", "sending"}
    BY <1>1, <2>1 DEF Seats
  <2>8. \A d \in Conns : job'[d].stage = "out" <=> link'[d] = "none"
    BY <1>1, <2>1 DEF Seats, At, InSeat
  <2>9. QED
    BY <2>3, <2>4, <2>5, <2>6, <2>7, <2>8 DEF Seats
<1>6. ASSUME UNCHANGED <<connections, named, link, job>> PROVE Seats'
  BY <1>6, SeatsStay DEF Seats, InSeat
<1>7. ASSUME NEW s \in Speakers, Say(s) PROVE Seats'
  BY <1>6, <1>7 DEF Say, seatingVars
<1>8. ASSUME NEW c \in Conns, Hear(c) \/ Deaf(c) PROVE Seats'
  BY <1>6, <1>8 DEF Hear, Deaf, seatingVars
<1>9. CASE UNCHANGED chatVars
  BY <1>6, <1>9 DEF chatVars, seatingVars
<1>10. QED
  BY <1>1, <1>2, <1>3, <1>4, <1>5, <1>7, <1>8, <1>9, ChatSteps

-----------------------------------------------------------------------------
(* The order of a sender's lines. *)

LEMMA LineParts ==
  ASSUME NEW l \in Line
  PROVE  l.from \in Speakers /\ l.n \in Nat
BY DEF Line

\* What is true of a speaker whose queue stays and who keeps the line in hand.
LEMMA LinesStay ==
  ASSUME ChatTypeOK, ChatTypeOK', NEW t \in Speakers, LinesOf(t),
         said'[t] = said[t], spoken <= spoken', answered \subseteq answered',
         \/ ~Busy(t)'
         \/ /\ Busy(t) /\ job'[t].line = job[t].line
            /\ job'[t].stage \in {"unknown", "sending"} => job[t].line \in answered'
  PROVE  LinesOf(t)'
<1>1. spoken \in Nat /\ spoken' \in Nat /\ said \in [Speakers -> Seq(Line)]
      /\ job \in [Speakers -> Job]
  BY DEF ChatTypeOK
<1>2. \A i \in 1 .. Len(said[t]) : said[t][i].n \in Nat
  BY <1>1, LineParts
<1>3. Busy(t) => job[t].line.n \in Nat
  <2>1. Busy(t) => job[t].line \in Line
    BY <1>1, JobParts DEF Busy
  <2>2. QED
    BY <2>1, LineParts
<1>4. job'[t].stage \in {"unknown", "sending"} => Busy(t)'
  BY DEF Busy
<1>5. \A i \in 1 .. Len(said[t]) : said[t][i].n <= spoken'
  BY <1>1, <1>2 DEF LinesOf
<1>6. CASE ~Busy(t)'
  BY <1>4, <1>5, <1>6 DEF LinesOf
<1>7. CASE /\ Busy(t) /\ job'[t].line = job[t].line
           /\ job'[t].stage \in {"unknown", "sending"} => job[t].line \in answered'
  <2>1. job[t].line.n <= spoken'
    BY <1>1, <1>3, <1>7 DEF LinesOf
  <2>2. QED
    BY <1>5, <1>7, <2>1 DEF LinesOf
<1>8. QED
  BY <1>6, <1>7

LEMMA SettledStays ==
  ASSUME ChatTypeOK, ChatTypeOK', NEW l \in answered, Settled(l),
         said'[l.from] = said[l.from], spoken <= spoken',
         \/ ~Busy(l.from)'
         \/ /\ Busy(l.from) /\ job'[l.from].line = job[l.from].line
            /\ job'[l.from].stage = "routing" => job[l.from].stage = "routing"
  PROVE  Settled(l)'
<1>1. spoken \in Nat /\ spoken' \in Nat /\ l.n \in Nat
  BY LineParts DEF ChatTypeOK
<1>2. job'[l.from].stage = "routing" => Busy(l.from)'
  BY DEF Busy
<1>3. l.n <= spoken'
  BY <1>1 DEF Settled
<1>4. QED
  BY <1>2, <1>3 DEF Settled

\* The next line is taken in hand, and perhaps answered at once.
LEMMA LineIsTaken ==
  ASSUME ChatTypeOK, ChatTypeOK', Lines, Answers, NEW s \in Speakers,
         ~Busy(s), said[s] # << >>,
         said' = [said EXCEPT ![s] = Tail(said[s])],
         UNCHANGED spoken,
         \A t \in Speakers : t # s => job'[t] = job[t],
         Busy(s)', job'[s].line = Head(said[s]),
         answered' = IF job'[s].stage = "routing" THEN answered
                     ELSE answered \cup {Head(said[s])}
  PROVE  (Lines /\ Answers)'
<1>1. /\ spoken \in Nat /\ said \in [Speakers -> Seq(Line)] /\ said[s] \in Seq(Line)
      /\ answered \subseteq Line
  BY DEF ChatTypeOK
<1>a. PICK line \in Line : line = Head(said[s])
  BY <1>1, HeadAndTail
<1>2. /\ line \in Line /\ line = said[s][1] /\ 1 \in 1 .. Len(said[s])
      /\ Len(said[s]) = Len(Tail(said[s])) + 1 /\ Len(Tail(said[s])) \in Nat
      /\ \A i \in 1 .. Len(Tail(said[s])) :
           Tail(said[s])[i] = said[s][i + 1] /\ i + 1 \in 1 .. Len(said[s])
  BY <1>1, <1>a, HeadAndTail
<1>3. said'[s] = Tail(said[s]) /\ \A t \in Speakers : t # s => said'[t] = said[t]
  BY <1>1
<1>4. /\ line.from = s /\ line.n <= spoken
      /\ \A i \in 1 .. Len(said'[s]) : said'[s][i].from = s /\ said'[s][i].n <= spoken
      /\ \A i \in 1 .. Len(said'[s]) : line.n < said'[s][i].n
      /\ \A i, j \in 1 .. Len(said'[s]) : i < j => said'[s][i].n < said'[s][j].n
  <2>1. LinesOf(s)
    BY DEF Lines
  <2>2. \A i \in 1 .. Len(said'[s]) : said'[s][i] = said[s][i + 1] /\ i + 1 \in 1 .. Len(said[s])
    BY <1>2, <1>3
  <2>3. \A i, j \in 1 .. Len(said[s]) : i < j => said[s][i].n < said[s][j].n
    BY <2>1 DEF LinesOf
  <2>4. \A i \in 1 .. Len(said[s]) : said[s][i].from = s /\ said[s][i].n <= spoken
    BY <2>1 DEF LinesOf
  <2>5. line.from = s /\ line.n <= spoken
    BY <1>2, <2>4
  <2>6. \A i \in 1 .. Len(said'[s]) : said'[s][i].from = s /\ said'[s][i].n <= spoken
    BY <2>2, <2>4
  <2>7. ASSUME NEW i \in 1 .. Len(said'[s]) PROVE line.n < said'[s][i].n
    <3>1. said'[s][i] = said[s][i + 1] /\ i + 1 \in 1 .. Len(said[s])
      BY <2>2
    <3>2. 1 < i + 1
      OBVIOUS
    <3>3. QED
      BY <1>2, <2>3, <3>1, <3>2
  <2>8. ASSUME NEW i \in 1 .. Len(said'[s]), NEW j \in 1 .. Len(said'[s]), i < j
        PROVE  said'[s][i].n < said'[s][j].n
    <3>1. i + 1 < j + 1
      BY <2>8
    <3>2. QED
      BY <2>2, <2>3, <3>1
  <2>9. QED
    BY <2>5, <2>6, <2>7, <2>8
<1>5. job'[s].line = line
  BY <1>a
<1>6. answered \subseteq answered' /\ answered' \subseteq answered \cup {line}
  BY <1>a
<1>7. job'[s].stage \in {"unknown", "sending"} => line \in answered'
  BY <1>a
<1>8. \A l \in answered : l.from = s => l.n < line.n
  BY <1>2 DEF Answers, Settled
<1>9. Busy(s)'
  OBVIOUS
<1>10. LinesOf(s)'
  BY <1>4, <1>5, <1>7 DEF LinesOf
<1>11. ASSUME NEW t \in Speakers, t # s PROVE LinesOf(t)'
  <2>1. LinesOf(t) /\ said'[t] = said[t] /\ job'[t] = job[t] /\ spoken <= spoken'
    BY <1>1, <1>3, <1>11 DEF Lines
  <2>2. Busy(t)' <=> Busy(t)
    BY <2>1 DEF Busy
  <2>3. job'[t].stage \in {"unknown", "sending"} => job[t].line \in answered'
    BY <1>6, <2>1 DEF LinesOf
  <2>4. QED
    BY <1>6, <2>1, <2>2, <2>3, LinesStay
<1>12. ASSUME NEW l \in answered, l.from = s PROVE Settled(l)'
  <2>1. l.n \in Nat /\ line.n \in Nat
    BY <1>1, <1>2, LineParts
  <2>2. l.n <= spoken
    BY DEF Answers, Settled
  <2>3. l.n < line.n
    BY <1>8, <1>12
  <2>4. \A i \in 1 .. Len(said'[s]) : said'[s][i].n \in Nat
    BY LineParts DEF ChatTypeOK
  <2>5. ASSUME NEW i \in 1 .. Len(said'[s]) PROVE l.n < said'[s][i].n
    <3>1. line.n < said'[s][i].n /\ said'[s][i].n \in Nat
      BY <1>4, <2>4
    <3>2. QED
      BY <2>1, <2>3, <3>1
  <2>6. l.n <= job'[s].line.n /\ l.n < job'[s].line.n /\ l.n <= spoken'
    BY <1>5, <2>1, <2>2, <2>3
  <2>7. QED
    BY <1>12, <2>5, <2>6 DEF Settled
<1>13. ASSUME NEW l \in answered, l.from # s PROVE Settled(l)'
  <2>1. l.from \in Speakers
    BY <1>1, LineParts
  <2>2. Settled(l) /\ said'[l.from] = said[l.from] /\ job'[l.from] = job[l.from] /\ spoken <= spoken'
    BY <1>1, <1>3, <1>13, <2>1 DEF Answers
  <2>3. Busy(l.from)' <=> Busy(l.from)
    BY <2>2 DEF Busy
  <2>4. QED
    BY <2>2, <2>3, SettledStays
<1>14. CASE job'[s].stage # "routing"
  <2>1. Settled(line)'
    <3>1. line.n \in Nat
      BY <1>2, LineParts
    <3>2. line.n <= spoken' /\ line.from = s
      BY <1>4
    <3>3. \A i \in 1 .. Len(said'[s]) : line.n < said'[s][i].n
      BY <1>4
    <3>4. line.n <= job'[s].line.n
      BY <1>5, <3>1
    <3>5. QED
      BY <1>14, <3>2, <3>3, <3>4 DEF Settled
  <2>2. QED
    BY <1>6, <1>10, <1>11, <1>12, <1>13, <2>1 DEF Lines, Answers
<1>15. CASE job'[s].stage = "routing"
  <2>1. answered' = answered
    BY <1>15
  <2>2. QED
    BY <1>10, <1>11, <1>12, <1>13, <2>1 DEF Lines, Answers
<1>16. QED
  BY <1>14, <1>15

\* A step that leaves the queues of lines alone and answers at most the line
\* that its handler routes.
LEMMA LineIsKept ==
  ASSUME ChatTypeOK, ChatTypeOK', Lines, Answers, NEW s \in Speakers,
         UNCHANGED <<said, spoken>>,
         \A t \in Speakers : t # s => job'[t] = job[t],
         \/ ~Busy(s)' /\ answered' = answered
         \/ /\ Busy(s) /\ Busy(s)' /\ job'[s].line = job[s].line
            /\ job'[s].stage # "routing"
            /\ answered' = answered \cup {job[s].line}
  PROVE  (Lines /\ Answers)'
<1>1. /\ spoken \in Nat /\ said \in [Speakers -> Seq(Line)] /\ job \in [Speakers -> Job]
      /\ answered \subseteq Line
  BY DEF ChatTypeOK
<1>2. \A t \in Speakers : LinesOf(t) /\ said'[t] = said[t] /\ spoken <= spoken'
  BY <1>1 DEF Lines
<1>3. answered \subseteq answered'
  OBVIOUS
<1>4. ASSUME NEW t \in Speakers, t # s PROVE LinesOf(t)'
  <2>1. job'[t] = job[t]
    BY <1>4
  <2>2. Busy(t)' <=> Busy(t)
    BY <2>1 DEF Busy
  <2>3. job'[t].stage \in {"unknown", "sending"} => job[t].line \in answered'
    BY <1>2, <1>3, <2>1 DEF LinesOf
  <2>4. QED
    BY <1>2, <1>3, <2>1, <2>2, <2>3, LinesStay
<1>5. LinesOf(s)'
  <2>1. job'[s].stage \in {"unknown", "sending"} => Busy(s)'
    BY DEF Busy
  <2>2. \/ ~Busy(s)'
        \/ /\ Busy(s) /\ job'[s].line = job[s].line
           /\ job'[s].stage \in {"unknown", "sending"} => job[s].line \in answered'
    BY <2>1
  <2>3. QED
    BY <1>2, <1>3, <2>2, LinesStay
<1>6. ASSUME NEW l \in answered PROVE Settled(l)'
  <2>1. l.from \in Speakers
    BY <1>1, LineParts
  <2>2. Settled(l) /\ said'[l.from] = said[l.from] /\ spoken <= spoken'
    BY <1>2, <2>1 DEF Answers
  <2>3. CASE l.from # s
    <3>1. job'[l.from] = job[l.from]
      BY <2>1, <2>3
    <3>2. Busy(l.from)' <=> Busy(l.from)
      BY <3>1 DEF Busy
    <3>3. QED
      BY <2>2, <3>1, <3>2, SettledStays
  <2>4. CASE l.from = s
    <3>1. \/ ~Busy(l.from)'
          \/ /\ Busy(l.from) /\ job'[l.from].line = job[l.from].line
             /\ job'[l.from].stage = "routing" => job[l.from].stage = "routing"
      BY <2>4
    <3>2. QED
      BY <2>2, <3>1, SettledStays
  <2>5. QED
    BY <2>3, <2>4
<1>7. CASE answered' = answered
  BY <1>4, <1>5, <1>6, <1>7 DEF Lines, Answers
<1>8. CASE /\ Busy(s) /\ Busy(s)' /\ job'[s].line = job[s].line
           /\ job'[s].stage # "routing"
           /\ answered' = answered \cup {job[s].line}
  <2>1. PICK line \in Line : line = job[s].line
    BY <1>1, <1>8, JobParts DEF Busy
  <2>2. line.n \in Nat
    BY LineParts
  <2>3. line.from = s /\ line.n <= spoken
    BY <1>2, <1>8, <2>1 DEF LinesOf
  <2>4. \A i \in 1 .. Len(said[s]) : line.n < said[s][i].n
    BY <1>2, <1>8, <2>1 DEF LinesOf
  <2>5. line.n <= job'[s].line.n /\ line.n <= spoken'
    BY <1>8, <2>1, <2>2, <2>3
  <2>6. \A i \in 1 .. Len(said'[s]) : line.n < said'[s][i].n
    BY <2>4
  <2>7. Settled(line)'
    BY <1>8, <2>3, <2>5, <2>6 DEF Settled
  <2>8. answered' = answered \cup {line}
    BY <1>8, <2>1
  <2>9. QED
    BY <1>4, <1>5, <1>6, <2>7, <2>8 DEF Lines, Answers
<1>9. QED
  BY <1>7, <1>8

\* The steps, as far as lines are concerned.
LEMMA LinesInHand ==
  ASSUME ChatTypeOK, NEW s \in Speakers
  PROVE  /\ Route(s) =>
              /\ job'[s] = Plan(s, job[s].line) /\ job[s].stage = "routing"
              /\ job'[s].stage \in {"unknown", "sending"} /\ job'[s].line = job[s].line
              /\ answered' = answered \cup {job[s].line}
         /\ FindSender(s) \/ SendOne(s) =>
              /\ job[s].stage \in {"unknown", "sending"}
              /\ job'[s].stage = "sending" /\ job'[s].line = job[s].line
              /\ answered' = answered
         /\ Finish(s) => job'[s].stage = "waiting" /\ answered' = answered
         /\ Route(s) \/ FindSender(s) \/ SendOne(s) \/ Finish(s) =>
              /\ UNCHANGED <<said, spoken>>
              /\ \A t \in Speakers : t # s => job'[t] = job[t]
<1>1. job \in [Speakers -> Job]
  BY DEF ChatTypeOK
<1>2. ASSUME Route(s)
      PROVE  /\ job'[s] = Plan(s, job[s].line) /\ job[s].stage = "routing"
             /\ job'[s].stage \in {"unknown", "sending"} /\ job'[s].line = job[s].line
             /\ answered' = answered \cup {job[s].line}
             /\ UNCHANGED <<said, spoken>>
             /\ \A t \in Speakers : t # s => job'[t] = job[t]
  <2>1. job' = [job EXCEPT ![s] = Plan(s, job[s].line)]
    BY <1>2 DEF Route, Become
  <2>2. job'[s] = Plan(s, job[s].line) /\ \A t \in Speakers : t # s => job'[t] = job[t]
    BY <1>1, <2>1
  <2>3. QED
    BY <1>2, <2>2, PlanParts DEF Route
<1>3. ASSUME FindSender(s)
      PROVE  /\ job[s].stage \in {"unknown", "sending"}
             /\ job'[s].stage = "sending" /\ job'[s].line = job[s].line
             /\ answered' = answered
             /\ UNCHANGED <<said, spoken>>
             /\ \A t \in Speakers : t # s => job'[t] = job[t]
  <2>1. \E to, host : job' = [job EXCEPT ![s] = Sending(job[s].line, to, host)]
    BY <1>3 DEF FindSender, Become
  <2>2. \A line, to, host : Sending(line, to, host).stage = "sending" /\ Sending(line, to, host).line = line
    BY DEF Sending
  <2>3. QED
    BY <1>1, <1>3, <2>1, <2>2 DEF FindSender
<1>4. ASSUME SendOne(s)
      PROVE  /\ job[s].stage \in {"unknown", "sending"}
             /\ job'[s].stage = "sending" /\ job'[s].line = job[s].line
             /\ answered' = answered
             /\ UNCHANGED <<said, spoken>>
             /\ \A t \in Speakers : t # s => job'[t] = job[t]
  <2>1. PICK d \in job[s].to :
           /\ job' = [job EXCEPT ![s] = Sending(job[s].line, job[s].to \ {d}, job[s].host)]
           /\ job[s].stage = "sending"
           /\ UNCHANGED <<said, spoken, answered>>
    BY <1>4, OneIsSent
  <2>2. \A line, to, host : Sending(line, to, host).stage = "sending" /\ Sending(line, to, host).line = line
    BY DEF Sending
  <2>3. QED
    BY <1>1, <2>1, <2>2
<1>5. ASSUME Finish(s)
      PROVE  /\ job'[s].stage = "waiting" /\ answered' = answered
             /\ UNCHANGED <<said, spoken>>
             /\ \A t \in Speakers : t # s => job'[t] = job[t]
  BY <1>1, <1>5 DEF Finish, Become, At
<1>6. QED
  BY <1>2, <1>3, <1>4, <1>5

LEMMA NextLines ==
  ASSUME ChatTypeOK, ChatTypeOK', Seats, Lines, Answers, [ChatNext]_chatVars
  PROVE  (Lines /\ Answers)'
<1>1. /\ spoken \in Nat /\ said \in [Speakers -> Seq(Line)] /\ job \in [Speakers -> Job]
      /\ answered \subseteq Line /\ Conns \subseteq Speakers /\ Host \in Speakers
  BY ChatTypes
<1>2. ASSUME NEW s \in Speakers, Route(s) PROVE (Lines /\ Answers)'
  <2>1. Busy(s) /\ Busy(s)' /\ job'[s].stage # "routing"
    BY <1>2, LinesInHand DEF Busy
  <2>2. QED
    BY <1>2, <2>1, LinesInHand, LineIsKept
<1>3. ASSUME NEW s \in Speakers, FindSender(s) \/ SendOne(s) PROVE (Lines /\ Answers)'
  <2>1. Busy(s) /\ Busy(s)' /\ job'[s].stage # "routing"
    BY <1>3, LinesInHand DEF Busy
  <2>2. answered' = answered \cup {job[s].line}
    BY <1>3, LinesInHand DEF Lines, LinesOf
  <2>3. QED
    BY <1>3, <2>1, <2>2, LinesInHand, LineIsKept
<1>4. ASSUME NEW s \in Speakers, Finish(s) PROVE (Lines /\ Answers)'
  <2>1. ~Busy(s)'
    BY <1>4, LinesInHand DEF Busy
  <2>2. QED
    BY <1>4, <2>1, LinesInHand, LineIsKept
<1>5. ASSUME NEW c \in Conns, Enter(c) \/ Serve(c) PROVE (Lines /\ Answers)'
  <2>1. /\ \E stage \in {"settling", "waiting"} : job' = [job EXCEPT ![c] = At(stage)]
        /\ UNCHANGED <<said, spoken, answered>>
    BY <1>5 DEF Enter, Serve, Become
  <2>2. ~Busy(c)' /\ \A t \in Speakers : t # c => job'[t] = job[t]
    BY <1>1, <2>1 DEF Busy, At
  <2>3. QED
    BY <1>1, <2>1, <2>2, LineIsKept
<1>6. ASSUME NEW c \in Conns, Quit(c) PROVE (Lines /\ Answers)'
  <2>1. /\ job' = [job EXCEPT ![c] = At("done")]
        /\ said' = [said EXCEPT ![c] = << >>]
        /\ UNCHANGED <<spoken, answered>>
    BY <1>6 DEF Quit, Become
  <2>2. job'[c] = At("done") /\ \A t \in Speakers : t # c => job'[t] = job[t] /\ said'[t] = said[t]
    BY <1>1, <2>1
  <2>3. said'[c] = << >> /\ ~Busy(c)' /\ Len(said'[c]) = 0
    BY <1>1, <2>1, <2>2 DEF Busy, At
  <2>4. \A t \in Speakers : t # c => (Busy(t)' <=> Busy(t))
    BY <2>2 DEF Busy
  <2>5. LinesOf(c)'
    BY <2>3 DEF LinesOf, Busy
  <2>6. ASSUME NEW t \in Speakers, t # c PROVE LinesOf(t)'
    <3>1. job'[t].stage \in {"unknown", "sending"} => job[t].line \in answered'
      BY <2>1, <2>2, <2>6 DEF Lines, LinesOf
    <3>2. LinesOf(t) /\ spoken <= spoken'
      BY <1>1, <2>1 DEF Lines
    <3>3. QED
      BY <2>1, <2>2, <2>4, <2>6, <3>1, <3>2, LinesStay
  <2>7. ASSUME NEW l \in answered PROVE Settled(l)'
    <3>1. l.from \in Speakers /\ Settled(l) /\ spoken <= spoken'
      BY <1>1, <2>1, LineParts DEF Answers
    <3>2. CASE l.from = c
      BY <2>1, <2>3, <3>1, <3>2 DEF Settled, Busy
    <3>3. CASE l.from # c
      BY <2>2, <2>4, <3>1, <3>3, SettledStays
    <3>4. QED
      BY <3>2, <3>3
  <2>8. QED
    BY <2>1, <2>5, <2>6, <2>7 DEF Lines, Answers
<1>7. ASSUME NEW s \in Speakers, Say(s) PROVE (Lines /\ Answers)'
  <2>1. PICK line \in Line :
           /\ line.from = s /\ line.n = spoken + 1
           /\ said' = [said EXCEPT ![s] = Append(@, line)]
           /\ spoken' = spoken + 1
           /\ UNCHANGED <<job, answered>>
    BY <1>7, SayAdds
  <2>2. said'[s] = Append(said[s], line) /\ \A t \in Speakers : t # s => said'[t] = said[t]
    BY <1>1, <2>1
  <2>3. /\ Len(said[s]) \in Nat /\ Len(said'[s]) = Len(said[s]) + 1
        /\ \A i \in 1 .. Len(said[s]) : said'[s][i] = said[s][i]
        /\ said'[s][Len(said[s]) + 1] = line
        /\ \A i \in 1 .. Len(said'[s]) : i \in 1 .. Len(said[s]) \/ i = Len(said[s]) + 1
    <3>1. said[s] \in Seq(Line)
      BY <1>1
    <3>2. QED
      BY <2>2, <3>1, AppendParts
  <2>4. \A t \in Speakers : Busy(t)' <=> Busy(t)
    BY <2>1 DEF Busy
  <2>5. \A i \in 1 .. Len(said[s]) : said[s][i].n \in Nat /\ said[s][i].n <= spoken /\ said[s][i].from = s
    BY <1>1, LineParts DEF Lines, LinesOf
  <2>6. Busy(s) => job[s].line.n \in Nat /\ job[s].line.n <= spoken /\ job[s].line.from = s
    <3>1. Busy(s) => job[s].line \in Line
      BY <1>1, JobParts DEF Busy
    <3>2. QED
      BY <3>1, LineParts DEF Lines, LinesOf
  <2>7. LinesOf(s)'
    <3>1. Busy(s)' => job'[s].line.from = s /\ job'[s].line.n <= spoken'
      BY <1>1, <2>1, <2>4, <2>6
    <3>2. job'[s].stage \in {"unknown", "sending"} => job'[s].line \in answered'
      BY <2>1 DEF Lines, LinesOf
    <3>3. ASSUME NEW i \in 1 .. Len(said'[s])
          PROVE  /\ said'[s][i].from = s /\ said'[s][i].n <= spoken'
                 /\ Busy(s)' => job'[s].line.n < said'[s][i].n
      <4>1. CASE i \in 1 .. Len(said[s])
        <5>1. Busy(s) => job[s].line.n < said[s][i].n
          BY <4>1 DEF Lines, LinesOf
        <5>2. QED
          BY <1>1, <2>1, <2>3, <2>4, <2>5, <4>1, <5>1
      <4>2. CASE i = Len(said[s]) + 1
        BY <1>1, <2>1, <2>3, <2>4, <2>6, <4>2
      <4>3. QED
        BY <2>3, <4>1, <4>2
    <3>4. ASSUME NEW i \in 1 .. Len(said'[s]), NEW j \in 1 .. Len(said'[s]), i < j
          PROVE  said'[s][i].n < said'[s][j].n
      <4>1. i \in 1 .. Len(said[s])
        BY <2>3, <3>4
      <4>2. CASE j \in 1 .. Len(said[s])
        <5>1. said[s][i].n < said[s][j].n
          BY <3>4, <4>1, <4>2 DEF Lines, LinesOf
        <5>2. QED
          BY <2>3, <4>1, <4>2, <5>1
      <4>3. CASE j = Len(said[s]) + 1
        BY <1>1, <2>1, <2>3, <2>5, <4>1, <4>3
      <4>4. QED
        BY <2>3, <4>2, <4>3
    <3>5. QED
      BY <3>1, <3>2, <3>3, <3>4 DEF LinesOf
  <2>8. ASSUME NEW t \in Speakers, t # s PROVE LinesOf(t)'
    <3>1. LinesOf(t) /\ spoken <= spoken'
      BY <1>1, <2>1 DEF Lines
    <3>2. job'[t].stage \in {"unknown", "sending"} => job[t].line \in answered'
      BY <2>1, <3>1 DEF LinesOf
    <3>3. QED
      BY <2>1, <2>2, <2>4, <2>8, <3>1, <3>2, LinesStay
  <2>9. ASSUME NEW l \in answered PROVE Settled(l)'
    <3>1. l.from \in Speakers /\ Settled(l) /\ spoken <= spoken' /\ l.n \in Nat
      BY <1>1, <2>1, LineParts DEF Answers
    <3>2. CASE l.from # s
      BY <2>1, <2>2, <2>4, <3>1, <3>2, SettledStays
    <3>3. CASE l.from = s
      <4>1. l.n <= spoken'
        BY <1>1, <2>1, <3>1 DEF Settled
      <4>2. ASSUME NEW i \in 1 .. Len(said'[s]) PROVE l.n < said'[s][i].n
        <5>1. CASE i \in 1 .. Len(said[s])
          BY <2>3, <3>1, <3>3, <5>1 DEF Settled
        <5>2. CASE i = Len(said[s]) + 1
          <6>1. l.n <= spoken
            BY <3>1 DEF Settled
          <6>2. QED
            BY <1>1, <2>1, <2>3, <3>1, <5>2, <6>1
        <5>3. QED
          BY <2>3, <5>1, <5>2
      <4>3. /\ Busy(s)' => l.n <= job'[s].line.n
            /\ job'[s].stage = "routing" => l.n < job'[s].line.n
        BY <2>1, <2>4, <3>1, <3>3 DEF Settled
      <4>4. QED
        BY <3>3, <4>1, <4>2, <4>3 DEF Settled
    <3>4. QED
      BY <3>2, <3>3
  <2>10. QED
    BY <2>1, <2>7, <2>8, <2>9 DEF Lines, Answers
<1>8. ASSUME NEW c \in Conns, Read(c) PROVE (Lines /\ Answers)'
  <2>1. job[c].stage = "waiting" /\ said[c] # << >>
        /\ said' = [said EXCEPT ![c] = Tail(said[c])] /\ UNCHANGED spoken
    BY <1>1, <1>8 DEF Read
  <2>2. \/ job' = [job EXCEPT ![c] = With("routing", Head(said[c]))] /\ answered' = answered
        \/ /\ job' = [job EXCEPT ![c] = Sending(Head(said[c]), For({c}, "slow"), "none")]
           /\ answered' = answered \cup {Head(said[c])}
    BY <1>8 DEF Read, Become
  <2>3. /\ \A stage, line : With(stage, line).stage = stage /\ With(stage, line).line = line
        /\ \A line, to, host : Sending(line, to, host).stage = "sending" /\ Sending(line, to, host).line = line
    BY DEF With, Sending
  <2>4. \/ job'[c] = With("routing", Head(said[c])) /\ answered' = answered
        \/ /\ job'[c] = Sending(Head(said[c]), For({c}, "slow"), "none")
           /\ answered' = answered \cup {Head(said[c])}
    BY <1>1, <2>2
  <2>5. \A t \in Speakers : t # c => job'[t] = job[t]
    BY <1>1, <2>2
  <2>6. job'[c].stage \in {"routing", "sending"} /\ job'[c].line = Head(said[c])
    BY <2>3, <2>4
  <2>7. answered' = IF job'[c].stage = "routing" THEN answered ELSE answered \cup {Head(said[c])}
    BY <2>3, <2>4
  <2>8. ~Busy(c) /\ Busy(c)'
    BY <2>1, <2>6 DEF Busy
  <2>9. QED
    BY <1>1, <2>1, <2>5, <2>6, <2>7, <2>8, LineIsTaken
<1>9. CASE ReadHost
  <2>1. job[Host].stage = "waiting" /\ said[Host] # << >>
        /\ said' = [said EXCEPT ![Host] = Tail(said[Host])] /\ UNCHANGED <<spoken, answered>>
        /\ job' = [job EXCEPT ![Host] = With("routing", Head(said[Host]))]
    BY <1>1, <1>9 DEF ReadHost, Become
  <2>2. job'[Host].stage = "routing" /\ job'[Host].line = Head(said[Host])
        /\ \A t \in Speakers : t # Host => job'[t] = job[t]
    BY <1>1, <2>1 DEF With
  <2>3. ~Busy(Host) /\ Busy(Host)'
    BY <2>1, <2>2 DEF Busy
  <2>4. QED
    BY <1>1, <2>1, <2>2, <2>3, LineIsTaken
<1>10. ASSUME UNCHANGED <<said, spoken, job, answered>> PROVE (Lines /\ Answers)'
  BY <1>10 DEF Lines, LinesOf, Answers, Settled, Busy
<1>11. ASSUME NEW c \in Conns, Lose(c) \/ Hear(c) \/ Deaf(c) PROVE (Lines /\ Answers)'
  BY <1>10, <1>11 DEF Lose, Hear, Deaf
<1>12. CASE UNCHANGED chatVars
  BY <1>10, <1>12 DEF chatVars
<1>13. QED
  BY <1>2, <1>3, <1>4, <1>5, <1>6, <1>7, <1>8, <1>9, <1>11, <1>12, ChatSteps

-----------------------------------------------------------------------------
(* What is on the wires. *)

LEMMA HandIsLine ==
  ASSUME ChatTypeOK, NEW s \in Speakers, Busy(s)
  PROVE  job[s].line \in Line
BY JobParts DEF ChatTypeOK, Busy

\* A message on a wire stays ahead of what its sender has still to send.
LEMMA PlacedStays ==
  ASSUME ChatTypeOK, Seats, Lines, Answers, [ChatNext]_chatVars,
         NEW m \in Messages, NEW c \in Conns, Placed(m, c)
  PROVE  Placed(m, c)'
<1>1. /\ said \in [Speakers -> Seq(Line)] /\ job \in [Speakers -> Job]
      /\ answered \subseteq Line /\ Conns \subseteq Speakers /\ Host \in Speakers
  BY ChatTypes
<1>2. \A s \in Speakers : Before(m, c, s) /\ m.line \in answered /\ m.line \in Line
  BY DEF Placed, Messages
<1>3. ASSUME NEW s \in Speakers, \A t \in Speakers : t # s => job'[t] = job[t],
             job'[s].stage \notin {"unknown", "sending"}, answered' = answered
      PROVE  Placed(m, c)'
  <2>1. ASSUME NEW t \in Speakers PROVE Before(m, c, t)'
    <3>1. CASE t = s
      BY <1>3, <3>1 DEF Before
    <3>2. CASE t # s
      BY <1>2, <1>3, <3>2 DEF Before
    <3>3. QED
      BY <3>1, <3>2
  <2>2. QED
    BY <1>2, <1>3, <2>1 DEF Placed
<1>4. ASSUME NEW s \in Speakers, \A t \in Speakers : t # s => job'[t] = job[t],
             answered \subseteq answered', Before(m, c, s)'
      PROVE  Placed(m, c)'
  <2>1. ASSUME NEW t \in Speakers PROVE Before(m, c, t)'
    BY <1>2, <1>4 DEF Before
  <2>2. QED
    BY <1>2, <1>4, <2>1 DEF Placed
<1>5. ASSUME NEW s \in Speakers, Route(s) PROVE Placed(m, c)'
  <2>1. m.line.from = s => m.line.n < job[s].line.n
    BY <1>2, <1>5 DEF Route, Answers, Settled
  <2>2. job'[s].line = job[s].line /\ answered \subseteq answered'
        /\ \A t \in Speakers : t # s => job'[t] = job[t]
    BY <1>5, LinesInHand
  <2>3. Before(m, c, s)'
    BY <2>1, <2>2 DEF Before
  <2>4. QED
    BY <1>4, <2>2, <2>3
<1>6. ASSUME NEW s \in Speakers, FindSender(s) PROVE Placed(m, c)'
  <2>1. job[s].stage = "unknown"
    BY <1>6 DEF FindSender
  <2>2. job'[s].line = job[s].line /\ answered \subseteq answered'
        /\ \A t \in Speakers : t # s => job'[t] = job[t]
    BY <1>6, LinesInHand
  <2>3. Before(m, c, s)'
    BY <1>2, <2>1, <2>2 DEF Before
  <2>4. QED
    BY <1>4, <2>2, <2>3
<1>7. ASSUME NEW s \in Speakers, SendOne(s) PROVE Placed(m, c)'
  <2>1. PICK d \in job[s].to :
           job' = [job EXCEPT ![s] = Sending(job[s].line, job[s].to \ {d}, job[s].host)]
    BY <1>7, OneIsSent
  <2>2. job[s].stage = "sending" /\ job'[s].line = job[s].line /\ answered \subseteq answered'
        /\ (\A t \in Speakers : t # s => job'[t] = job[t])
        /\ job'[s].stage = "sending"
    BY <1>7, LinesInHand DEF SendOne
  <2>3. job'[s].to = job[s].to \ {d}
    BY <1>1, <2>1 DEF Sending
  <2>4. Before(m, c, s)'
    BY <1>2, <2>2, <2>3 DEF Before
  <2>5. QED
    BY <1>4, <2>2, <2>4
<1>8. ASSUME NEW s \in Speakers, Finish(s) PROVE Placed(m, c)'
  <2>1. job'[s].stage = "waiting" /\ answered' = answered
        /\ \A t \in Speakers : t # s => job'[t] = job[t]
    BY <1>8, LinesInHand
  <2>2. QED
    BY <1>3, <2>1
<1>9. ASSUME NEW s \in Conns, Enter(s) \/ Serve(s) \/ Quit(s) PROVE Placed(m, c)'
  <2>1. /\ \E stage \in {"settling", "waiting", "done"} : job' = [job EXCEPT ![s] = At(stage)]
        /\ answered' = answered
    BY <1>9 DEF Enter, Serve, Quit, Become
  <2>2. (\A t \in Speakers : t # s => job'[t] = job[t]) /\ job'[s].stage \notin {"unknown", "sending"}
    BY <1>1, <2>1 DEF At
  <2>3. QED
    BY <1>1, <1>3, <2>1, <2>2
<1>10. ASSUME NEW s \in Conns, Read(s) PROVE Placed(m, c)'
  <2>1. said[s] # << >> /\ s \in Speakers
    BY <1>1, <1>10 DEF Read
  <2>2. Head(said[s]) = said[s][1] /\ 1 \in 1 .. Len(said[s])
    BY <1>1, <2>1, HeadAndTail
  <2>3. m.line.from = s => m.line.n < Head(said[s]).n
    <3>1. Settled(m.line)
      BY <1>2, <2>1 DEF Answers
    <3>2. CASE m.line.from = s
      <4>1. \A i \in 1 .. Len(said[s]) : m.line.n < said[s][i].n
        BY <3>1, <3>2 DEF Settled
      <4>2. m.line.n < said[s][1].n
        BY <2>2, <4>1
      <4>3. QED
        BY <2>2, <4>2
    <3>3. QED
      BY <3>2
  <2>4. job'[s].line = Head(said[s]) /\ answered \subseteq answered'
        /\ \A t \in Speakers : t # s => job'[t] = job[t]
    <3>1. /\ \/ job' = [job EXCEPT ![s] = With("routing", Head(said[s]))]
             \/ job' = [job EXCEPT ![s] = Sending(Head(said[s]), For({s}, "slow"), "none")]
          /\ answered \subseteq answered'
      BY <1>10 DEF Read, Become
    <3>2. QED
      BY <1>1, <3>1 DEF With, Sending
  <2>5. Before(m, c, s)'
    BY <2>3, <2>4 DEF Before
  <2>6. QED
    BY <1>4, <2>1, <2>4, <2>5
<1>11. CASE ReadHost
  <2>1. job' = [job EXCEPT ![Host] = With("routing", Head(said[Host]))] /\ answered' = answered
    BY <1>11 DEF ReadHost, Become
  <2>2. job'[Host].stage = "routing" /\ \A t \in Speakers : t # Host => job'[t] = job[t]
    BY <1>1, <2>1 DEF With
  <2>3. QED
    BY <1>1, <1>3, <2>1, <2>2
<1>12. ASSUME UNCHANGED <<job, answered>> PROVE Placed(m, c)'
  BY <1>2, <1>12 DEF Placed, Before
<1>13. ASSUME NEW s \in Speakers, Say(s) PROVE Placed(m, c)'
  BY <1>12, <1>13 DEF Say
<1>14. ASSUME NEW s \in Conns, Lose(s) \/ Hear(s) \/ Deaf(s) PROVE Placed(m, c)'
  BY <1>12, <1>14 DEF Lose, Hear, Deaf
<1>15. CASE UNCHANGED chatVars
  BY <1>12, <1>15 DEF chatVars
<1>16. QED
  BY <1>5, <1>6, <1>7, <1>8, <1>9, <1>10, <1>11, <1>13, <1>14, <1>15, ChatSteps

\* The message that a send puts on a wire.
LEMMA SentIsPlaced ==
  ASSUME ChatTypeOK, Lines, NEW s \in Speakers, SendOne(s),
         NEW d \in job[s].to, d \in [conn : Conns, kind : Kind],
         job' = [job EXCEPT ![s] = Sending(job[s].line, job[s].to \ {d}, job[s].host)]
  PROVE  \E m \in Messages :
           /\ m = Message(job[s].line, d.kind)
           /\ Placed(m, d.conn)'
           /\ \A other : Placed(other, d.conn) => InOrder(other, m)
<1>1. PICK m \in Messages : m = Message(job[s].line, d.kind) /\ m.line = job[s].line /\ m.kind = d.kind
  <2>1. job[s].line \in Line /\ d.kind \in Kind
    BY HandIsLine DEF SendOne, Busy
  <2>2. Message(job[s].line, d.kind) \in Messages
    BY <2>1 DEF Message, Messages
  <2>3. /\ Message(job[s].line, d.kind).line = job[s].line
        /\ Message(job[s].line, d.kind).kind = d.kind
    BY DEF Message
  <2>4. QED
    BY <2>2, <2>3
<1>2. /\ job[s].stage = "sending" /\ answered' = answered
      /\ (\A t \in Speakers : t # s => job'[t] = job[t])
      /\ job'[s].stage = "sending" /\ job'[s].line = job[s].line
  BY LinesInHand DEF SendOne
<1>3. m.line \in answered /\ m.line.from = s
  BY <1>1, <1>2 DEF Lines, LinesOf, Busy
<1>4. job'[s].to = job[s].to \ {d}
  BY DEF Sending, ChatTypeOK
<1>5. d = [conn |-> d.conn, kind |-> d.kind]
  OBVIOUS
<1>6. ASSUME NEW t \in Speakers PROVE Before(m, d.conn, t)'
  <2>1. CASE t = s
    BY <1>1, <1>2, <1>4, <1>5, <2>1 DEF Before
  <2>2. CASE t # s
    BY <1>3, <2>2 DEF Before
  <2>3. QED
    BY <2>1, <2>2
<1>7. Placed(m, d.conn)'
  BY <1>2, <1>3, <1>6 DEF Placed
<1>8. ASSUME NEW other, Placed(other, d.conn) PROVE InOrder(other, m)
  <2>1. Before(other, d.conn, s)
    BY <1>8 DEF Placed
  <2>2. QED
    BY <1>1, <1>2, <1>3, <1>5, <2>1 DEF Before, InOrder
<1>9. QED
  BY <1>1, <1>7, <1>8

LEMMA NextWires ==
  ASSUME ChatTypeOK, ChatTypeOK', Seats, Lines, Answers, Wires, [ChatNext]_chatVars
  PROVE  Wires'
<1>1. /\ wire \in [Conns -> Seq(Messages)]
      /\ \A c \in Conns : \A i \in 1 .. Len(wire[c]) : wire[c][i] \in Messages
  BY ChatTypes
<1>2. \A c \in Conns : \A i \in 1 .. Len(wire[c]) :
        /\ Placed(wire[c][i], c)
        /\ \A j \in 1 .. Len(wire[c]) : i < j => InOrder(wire[c][i], wire[c][j])
  BY DEF Wires, Queued
<1>3. ASSUME NEW m \in Messages, NEW c \in Conns, Placed(m, c)
      PROVE  Placed(m, c)'
  BY <1>3, PlacedStays
\* The rest of a wire is as good as the whole.
<1>4. ASSUME NEW c \in Conns, NEW k \in {0, 1},
             Len(wire'[c]) \in Nat, Len(wire'[c]) + k <= Len(wire[c]),
             \A i \in 1 .. Len(wire'[c]) : wire'[c][i] = wire[c][i + k]
      PROVE  Queued(c)'
  <2>1. Len(wire[c]) \in Nat
    BY <1>1
  <2>2. \A i \in 1 .. Len(wire'[c]) : i + k \in 1 .. Len(wire[c])
    BY <1>4, <2>1
  <2>3. ASSUME NEW i \in 1 .. Len(wire'[c]), NEW m, m = wire'[c][i]
        PROVE  Placed(m, c)'
    <3>1. m = wire[c][i + k] /\ i + k \in 1 .. Len(wire[c])
      BY <1>4, <2>2, <2>3
    <3>2. m \in Messages /\ Placed(m, c)
      BY <1>1, <1>2, <3>1
    <3>3. QED
      BY <1>3, <3>2
  <2>4. ASSUME NEW i \in 1 .. Len(wire'[c]), NEW j \in 1 .. Len(wire'[c]), i < j
        PROVE  InOrder(wire'[c][i], wire'[c][j])
    <3>1. /\ i + k \in 1 .. Len(wire[c]) /\ j + k \in 1 .. Len(wire[c]) /\ i + k < j + k
          /\ wire'[c][i] = wire[c][i + k] /\ wire'[c][j] = wire[c][j + k]
      BY <1>4, <2>2, <2>4
    <3>2. QED
      BY <1>2, <3>1
  <2>5. ASSUME NEW i \in 1 .. Len(wire'[c]) PROVE Placed(wire[c][i], c)'
    BY <2>3 DEF Placed, Before
  <2>6. ASSUME NEW i \in 1 .. Len(wire'[c]), NEW j \in 1 .. Len(wire'[c]), i < j
        PROVE  InOrder(wire[c][i], wire[c][j])'
    BY <2>4, <2>6 DEF InOrder
  <2>7. QED
    BY <2>5, <2>6 DEF Queued
<1>5. ASSUME NEW c \in Conns, wire'[c] = wire[c] PROVE Queued(c)'
  <2>1. /\ Len(wire'[c]) \in Nat /\ Len(wire'[c]) + 0 <= Len(wire[c])
        /\ \A i \in 1 .. Len(wire'[c]) : wire'[c][i] = wire[c][i + 0]
    <3>1. Len(wire[c]) \in Nat
      BY <1>1
    <3>2. QED
      BY <1>5, <3>1
  <2>2. QED
    BY <1>4, <2>1
<1>6. CASE UNCHANGED wire
  BY <1>5, <1>6 DEF Wires
<1>7. ASSUME NEW c \in Conns, Hear(c) PROVE Wires'
  <2>1. wire' = [wire EXCEPT ![c] = Tail(wire[c])] /\ wire[c] # << >> /\ wire[c] \in Seq(Messages)
    BY <1>1, <1>7 DEF Hear
  <2>2. wire'[c] = Tail(wire[c]) /\ \A d \in Conns : d # c => wire'[d] = wire[d]
    BY <1>1, <2>1
  <2>3. /\ Len(wire'[c]) \in Nat /\ Len(wire'[c]) + 1 <= Len(wire[c])
        /\ \A i \in 1 .. Len(wire'[c]) : wire'[c][i] = wire[c][i + 1]
    <3>1. /\ Len(wire[c]) = Len(Tail(wire[c])) + 1 /\ Len(Tail(wire[c])) \in Nat
          /\ \A i \in 1 .. Len(Tail(wire[c])) : Tail(wire[c])[i] = wire[c][i + 1]
      BY <2>1, HeadAndTail
    <3>2. QED
      BY <2>2, <3>1
  <2>4. Queued(c)'
    BY <1>4, <2>3
  <2>5. QED
    BY <1>5, <2>2, <2>4 DEF Wires
<1>8. ASSUME NEW c \in Conns, Deaf(c) PROVE Wires'
  <2>1. wire'[c] = << >> /\ \A d \in Conns : d # c => wire'[d] = wire[d]
    BY <1>1, <1>8 DEF Deaf
  <2>2. Len(wire'[c]) = 0
    BY <2>1
  <2>3. Queued(c)'
    BY <2>2 DEF Queued
  <2>4. QED
    BY <1>5, <2>1, <2>3 DEF Wires
<1>9. ASSUME NEW s \in Speakers, SendOne(s) PROVE Wires'
  <2>1. PICK d \in job[s].to :
           /\ d \in [conn : Conns, kind : Kind]
           /\ wire' = Sent(d.conn, Message(job[s].line, d.kind))
           /\ job' = [job EXCEPT ![s] = Sending(job[s].line, job[s].to \ {d}, job[s].host)]
    BY <1>9, OneIsSent
  <2>2. PICK m \in Messages :
           /\ m = Message(job[s].line, d.kind)
           /\ Placed(m, d.conn)'
           /\ \A other : Placed(other, d.conn) => InOrder(other, m)
    BY <1>9, <2>1, SentIsPlaced
  <2>3. PICK c \in Conns : c = d.conn
    BY <2>1
  <2>4. CASE link[c] # "up"
    BY <1>6, <2>1, <2>3, <2>4 DEF Sent
  <2>5. CASE link[c] = "up"
    <3>1. wire' = [wire EXCEPT ![c] = Append(wire[c], m)]
      BY <1>1, <2>1, <2>2, <2>3, <2>5 DEF Sent
    <3>2. wire'[c] = Append(wire[c], m) /\ \A e \in Conns : e # c => wire'[e] = wire[e]
      BY <1>1, <3>1
    <3>3. /\ Len(wire[c]) \in Nat /\ Len(wire'[c]) = Len(wire[c]) + 1
          /\ \A i \in 1 .. Len(wire[c]) : wire'[c][i] = wire[c][i]
          /\ wire'[c][Len(wire[c]) + 1] = m
          /\ \A i \in 1 .. Len(wire'[c]) : i \in 1 .. Len(wire[c]) \/ i = Len(wire[c]) + 1
      <4>1. wire[c] \in Seq(Messages)
        BY <1>1
      <4>2. QED
        BY <3>2, <4>1, AppendParts
    <3>4. ASSUME NEW i \in 1 .. Len(wire'[c]), NEW o, o = wire'[c][i]
          PROVE  Placed(o, c)'
      <4>1. CASE i \in 1 .. Len(wire[c])
        <5>1. o = wire[c][i]
          BY <3>3, <3>4, <4>1
        <5>2. o \in Messages /\ Placed(o, c)
          BY <1>1, <1>2, <4>1, <5>1
        <5>3. QED
          BY <1>3, <5>2
      <4>2. CASE i = Len(wire[c]) + 1
        <5>1. o = m
          BY <3>3, <3>4, <4>2
        <5>2. Placed(m, c)'
          BY <2>1, <2>2, <2>3
        <5>3. QED
          BY <5>1, <5>2
      <4>3. QED
        BY <3>3, <4>1, <4>2
    <3>5. ASSUME NEW i \in 1 .. Len(wire'[c]), NEW j \in 1 .. Len(wire'[c]), i < j
          PROVE  InOrder(wire'[c][i], wire'[c][j])
      <4>1. i \in 1 .. Len(wire[c]) /\ wire'[c][i] = wire[c][i]
        BY <3>3, <3>5
      <4>2. CASE j \in 1 .. Len(wire[c])
        BY <1>2, <3>3, <3>5, <4>1, <4>2
      <4>3. CASE j = Len(wire[c]) + 1
        <5>1. InOrder(wire[c][i], m)
          BY <1>2, <2>2, <2>3, <4>1
        <5>2. QED
          BY <3>3, <4>1, <4>3, <5>1
      <4>4. QED
        BY <3>3, <4>2, <4>3
    <3>6. ASSUME NEW i \in 1 .. Len(wire'[c]) PROVE Placed(wire[c][i], c)'
      BY <3>4 DEF Placed, Before
    <3>7. ASSUME NEW i \in 1 .. Len(wire'[c]), NEW j \in 1 .. Len(wire'[c]), i < j
          PROVE  InOrder(wire[c][i], wire[c][j])'
      BY <3>5, <3>7 DEF InOrder
    <3>8. Queued(c)'
      BY <3>6, <3>7 DEF Queued
    <3>9. QED
      BY <1>5, <3>2, <3>8 DEF Wires
  <2>6. QED
    BY <2>4, <2>5
<1>10. ASSUME NEW c \in Conns, Enter(c) \/ Serve(c) \/ Lose(c) \/ Quit(c) \/ Read(c) PROVE Wires'
  BY <1>6, <1>10 DEF Enter, Serve, Lose, Quit, Read
<1>11. ASSUME NEW s \in Speakers, Say(s) \/ Route(s) \/ FindSender(s) \/ Finish(s) PROVE Wires'
  BY <1>6, <1>11 DEF Say, Route, FindSender, Finish
<1>12. CASE ReadHost
  BY <1>6, <1>12 DEF ReadHost
<1>13. CASE UNCHANGED chatVars
  BY <1>6, <1>13 DEF chatVars
<1>14. QED
  BY <1>7, <1>8, <1>9, <1>10, <1>11, <1>12, <1>13, ChatSteps

-----------------------------------------------------------------------------
(* Whoever is still to be sent something was admitted once. *)

LEMMA SeatedAreLinked ==
  ASSUME ChatTypeOK, Seats
  PROVE  /\ \A c \in Every : link[c] # "none"
         /\ \A name : \A c \in ConnectionOf(name) : link[c] # "none"
<1>1. \A e \in connections : e.conn \in Conns /\ InSeat(e.conn)
  BY DEF Seats
<1>2. \A e \in connections : link[e.conn] # "none"
  BY <1>1 DEF Seats, InSeat
<1>3. QED
  BY <1>2 DEF Every, ConnectionOf

LEMMA PlanReceivers ==
  ASSUME ChatTypeOK, Seats, NEW s, NEW line, Plan(s, line).stage = "sending"
  PROVE  \A d \in Plan(s, line).to : link[d.conn] # "none"
<1>1. CASE line.to = All
  BY <1>1, SeatedAreLinked DEF Plan, Sending, For
<1>2. CASE line.to # All /\ FirstWord(line.to) \notin Roster
  BY <1>2 DEF Plan, With
<1>3. CASE line.to # All /\ FirstWord(line.to) \in Roster
  <2>1. Plan(s, line).to = For(ConnectionOf(FirstWord(line.to)), "line")
                             \cup For(ConnectionOf(NameOf(s)), "echo")
    BY <1>3 DEF Plan, Sending
  <2>2. QED
    BY <2>1, SeatedAreLinked DEF For
<1>4. QED
  BY <1>1, <1>2, <1>3

LEMMA NextReceivers ==
  ASSUME ChatTypeOK, Seats, Receivers, [ChatNext]_chatVars
  PROVE  Receivers'
<1>1. /\ job \in [Speakers -> Job] /\ link \in [Conns -> {"none", "up", "down"}]
      /\ Conns \subseteq Speakers /\ Host \in Speakers
  BY ChatTypes
<1>2. \A s \in Speakers : job[s].stage = "sending" =>
        \A d \in job[s].to : d.conn \in Conns /\ link[d.conn] # "none"
  BY <1>1, JobParts DEF Receivers
<1>3. ASSUME NEW s \in Speakers, \A t \in Speakers : t # s => job'[t] = job[t],
             job'[s].stage = "sending" => \A d \in job'[s].to : d.conn \in Conns /\ link[d.conn] # "none",
             \A c \in Conns : link[c] # "none" => link'[c] # "none"
      PROVE  Receivers'
  BY <1>2, <1>3 DEF Receivers
<1>4. ASSUME UNCHANGED job, \A c \in Conns : link[c] # "none" => link'[c] # "none"
      PROVE  Receivers'
  BY <1>2, <1>4 DEF Receivers
<1>5. ASSUME NEW s \in Speakers, Route(s) PROVE Receivers'
  <2>1. job'[s] = Plan(s, job[s].line) /\ (\A t \in Speakers : t # s => job'[t] = job[t])
        /\ UNCHANGED link
    BY <1>5, LinesInHand DEF Route
  <2>2. job[s].line \in Line
    BY <1>5, HandIsLine DEF Route, Busy
  <2>3. Plan(s, job[s].line) \in Job
    BY <2>2, PlanIsAJob
  <2>4. job'[s].stage = "sending" => \A d \in job'[s].to : d.conn \in Conns
    BY <2>1, <2>3, JobParts
  <2>5. QED
    BY <1>3, <2>1, <2>4, PlanReceivers
<1>6. ASSUME NEW s \in Speakers, FindSender(s) PROVE Receivers'
  <2>1. \E host : job' = [job EXCEPT ![s] =
                           Sending(job[s].line, For(ConnectionOf(NameOf(s)), "unknown"), host)]
    BY <1>6 DEF FindSender, Become
  <2>2. job'[s].to = For(ConnectionOf(NameOf(s)), "unknown")
        /\ (\A t \in Speakers : t # s => job'[t] = job[t])
    BY <1>1, <2>1 DEF Sending
  <2>3. \A d \in job'[s].to : d.conn \in Conns /\ link[d.conn] # "none"
    BY <2>2, SeatedAreLinked, WhoIsConnected DEF For
  <2>4. QED
    BY <1>3, <1>6, <2>2, <2>3 DEF FindSender
<1>7. ASSUME NEW s \in Speakers, SendOne(s) PROVE Receivers'
  <2>1. PICK d \in job[s].to :
           job' = [job EXCEPT ![s] = Sending(job[s].line, job[s].to \ {d}, job[s].host)]
    BY <1>7, OneIsSent
  <2>2. job'[s].to = job[s].to \ {d} /\ (\A t \in Speakers : t # s => job'[t] = job[t])
    BY <1>1, <2>1 DEF Sending
  <2>3. QED
    BY <1>2, <1>3, <1>7, <2>2 DEF SendOne
<1>8. ASSUME NEW s \in Speakers, Finish(s) PROVE Receivers'
  BY <1>3, <1>8, LinesInHand DEF Finish
<1>9. ASSUME NEW c \in Conns, Enter(c) \/ Serve(c) \/ Quit(c) PROVE Receivers'
  <2>1. /\ \E stage \in {"settling", "waiting", "done"} : job' = [job EXCEPT ![c] = At(stage)]
        /\ link' = link \/ link' = [link EXCEPT ![c] = "up"]
    BY <1>9 DEF Enter, Serve, Quit, Become
  <2>2. (\A t \in Speakers : t # c => job'[t] = job[t]) /\ job'[c].stage # "sending"
    BY <1>1, <2>1 DEF At
  <2>3. \A d \in Conns : link[d] # "none" => link'[d] # "none"
    BY <1>1, <2>1
  <2>4. QED
    BY <1>1, <1>3, <2>2, <2>3
<1>10. ASSUME NEW c \in Conns, Read(c) PROVE Receivers'
  <2>1. /\ \/ job' = [job EXCEPT ![c] = With("routing", Head(said[c]))]
           \/ job' = [job EXCEPT ![c] = Sending(Head(said[c]), For({c}, "slow"), "none")]
        /\ UNCHANGED link /\ job[c].stage = "waiting"
    BY <1>10 DEF Read, Become, seatingVars
  <2>2. link[c] # "none"
    BY <1>1, <2>1 DEF Seats
  <2>3. /\ \A t \in Speakers : t # c => job'[t] = job[t]
        /\ job'[c] = With("routing", Head(said[c]))
             \/ job'[c] = Sending(Head(said[c]), For({c}, "slow"), "none")
    BY <1>1, <2>1
  <2>4. job'[c].stage = "sending" => \A d \in job'[c].to : d.conn \in Conns /\ link[d.conn] # "none"
    BY <2>2, <2>3 DEF With, Sending, For
  <2>5. QED
    BY <1>1, <1>3, <2>1, <2>3, <2>4
<1>11. CASE ReadHost
  <2>1. job' = [job EXCEPT ![Host] = With("routing", Head(said[Host]))] /\ UNCHANGED link
    BY <1>11 DEF ReadHost, Become, seatingVars
  <2>2. job'[Host].stage = "routing" /\ \A t \in Speakers : t # Host => job'[t] = job[t]
    BY <1>1, <2>1 DEF With
  <2>3. QED
    BY <1>1, <1>3, <2>1, <2>2
<1>12. ASSUME NEW s \in Speakers, Say(s) PROVE Receivers'
  BY <1>4, <1>12 DEF Say
<1>13. ASSUME NEW c \in Conns, Hear(c) \/ Deaf(c) PROVE Receivers'
  BY <1>4, <1>13 DEF Hear, Deaf
<1>14. ASSUME NEW c \in Conns, Lose(c) PROVE Receivers'
  <2>1. UNCHANGED job /\ \A d \in Conns : link[d] # "none" => link'[d] # "none"
    BY <1>1, <1>14 DEF Lose
  <2>2. QED
    BY <1>4, <2>1
<1>15. CASE UNCHANGED chatVars
  BY <1>4, <1>15 DEF chatVars
<1>16. QED
  BY <1>5, <1>6, <1>7, <1>8, <1>9, <1>10, <1>11, <1>12, <1>13, <1>14, <1>15, ChatSteps

\* At the beginning nobody sits and nothing was said.
LEMMA ChatInitInv == ChatInit => ChatInv
<1> SUFFICES ASSUME ChatInit PROVE ChatInv
  OBVIOUS
<1>1. ChatTypeOK
  BY ChatInitTypes
<1>2. \A s \in Speakers : job[s].stage = IF s = Host THEN "waiting" ELSE "out"
  BY DEF ChatInit, At
<1>3. \A c \in Conns : ~InSeat(c)
  BY <1>1, <1>2, ChatTypes DEF InSeat
<1>4. Seats
  <2>1. connections = {[name |-> named[c], conn |-> c] : c \in {d \in Conns : InSeat(d)}}
    BY <1>3 DEF ChatInit
  <2>2. IsFiniteSet(connections)
    BY FS_EmptySet DEF ChatInit
  <2>3. job[Host].stage = "waiting"
    BY <1>1, <1>2, ChatTypes
  <2>4. \A c \in Conns : job[c].stage = "out" <=> link[c] = "none"
    BY <1>1, <1>2, ChatTypes DEF ChatInit
  <2>5. QED
    BY <1>3, <2>1, <2>2, <2>3, <2>4 DEF Seats
<1>5. \A s \in Speakers : ~Busy(s) /\ Len(said[s]) = 0
  BY <1>2 DEF ChatInit, Busy
<1>6. Lines /\ Answers
  BY <1>5 DEF Lines, LinesOf, Answers, Busy, ChatInit
<1>7. Wires
  BY DEF Wires, Queued, ChatInit
<1>8. Receivers
  BY <1>2 DEF Receivers
<1>9. QED
  BY <1>1, <1>4, <1>6, <1>7, <1>8 DEF ChatInv

LEMMA ChatInvariant == ChatSpec => []ChatInv
<1>1. ChatInv /\ [ChatNext]_chatVars => ChatInv'
  <2> SUFFICES ASSUME ChatInv, [ChatNext]_chatVars PROVE ChatInv'
    OBVIOUS
  <2> USE DEF ChatInv
  <2>1. ChatTypeOK'
    BY ChatNextTypes
  <2>2. Seats'
    BY NextSeats
  <2>3. (Lines /\ Answers)'
    BY <2>1, NextLines
  <2>4. Wires'
    BY <2>1, NextWires
  <2>5. Receivers'
    BY NextReceivers
  <2>6. QED
    BY <2>1, <2>2, <2>3, <2>4, <2>5
<1>2. QED
  BY <1>1, ChatInitInv, PTL DEF ChatSpec

-----------------------------------------------------------------------------
(* Chat implements Delivery. *)

Away == {c \in Conns : link[c] = "down"}

Due == OnTheWire \cup UNION {ToBeSent(s) : s \in Speakers}

\* What all but s have still to send.
Others(s) == UNION {ToBeSent(t) : t \in Speakers \ {s}}

LEMMA DueParts ==
  ASSUME NEW s \in Speakers
  PROVE  Due = OnTheWire \cup Others(s) \cup ToBeSent(s)
BY DEF Due, Others

LEMMA WireItems ==
  ASSUME ChatTypeOK, NEW x
  PROVE  x \in OnTheWire <=>
           \E c \in Conns : \E i \in 1 .. Len(wire[c]) :
             x = Item(wire[c][i].line, wire[c][i].kind, c)
<1>1. \A c \in Conns : DOMAIN wire[c] = 1 .. Len(wire[c])
  BY DEF ChatTypeOK
<1>2. QED
  BY <1>1 DEF OnTheWire

\* What a job makes due, by the stage it is at.
LEMMA JobItems ==
  ASSUME NEW s
  PROVE  /\ job[s].stage \notin {"unknown", "sending"} => ToBeSent(s) = {}
         /\ job[s].stage = "unknown" => ToBeSent(s) = {Item(job[s].line, "unknown", s)}
         /\ job[s].stage = "sending" =>
              ToBeSent(s) = {Item(job[s].line, d.kind, d.conn) : d \in job[s].to}
                              \cup {Item(job[s].line, k, Host) : k \in {job[s].host} \ {"none"}}
BY DEF ToBeSent

\* What is still to be sent is of the sender's line.
LEMMA ItemsOfSender ==
  ASSUME ChatTypeOK, Lines, NEW s \in Speakers, NEW x \in ToBeSent(s)
  PROVE  /\ Busy(s) /\ x.line = job[s].line /\ x.line.from = s /\ x.line \in Line
         /\ x.line.n \in Nat
<1>1. Busy(s)
  BY JobItems DEF Busy
<1>2. x.line = job[s].line
  BY JobItems DEF Item
<1>3. QED
  BY <1>1, <1>2, HandIsLine, LineParts DEF Lines, LinesOf

\* A step of one handler changes what that handler makes due.
LEMMA OthersStay ==
  ASSUME NEW s \in Speakers, \A t \in Speakers : t # s => job'[t] = job[t]
  PROVE  Others(s)' = Others(s)
<1>1. \A t \in Speakers \ {s} : ToBeSent(t)' = ToBeSent(t)
  BY DEF ToBeSent
<1>2. QED
  BY <1>1 DEF Others

LEMMA WiresStay ==
  ASSUME UNCHANGED wire
  PROVE  OnTheWire' = OnTheWire
BY DEF OnTheWire

LEMMA DueMoves ==
  ASSUME NEW s \in Speakers, \A t \in Speakers : t # s => job'[t] = job[t], UNCHANGED wire
  PROVE  Due' = OnTheWire \cup Others(s) \cup ToBeSent(s)'
<1>1. Others(s)' = Others(s) /\ OnTheWire' = OnTheWire
  BY OthersStay, WiresStay
<1>2. Due' = OnTheWire' \cup Others(s)' \cup ToBeSent(s)'
  BY DEF Due, Others
<1>3. QED
  BY <1>1, <1>2

(* The steps of Delivery, in terms of Chat. *)

LEMMA AbstractStutter ==
  ASSUME Due' = Due, Away' = Away, UNCHANGED <<connections, console, answered>>
  PROVE  UNCHANGED Abstract!deliveryVars
BY DEF Abstract!deliveryVars, Due, Away

LEMMA AbstractReseat ==
  ASSUME Due' = Due, Away' = Away, UNCHANGED <<console, answered>>
  PROVE  Abstract!Next
BY DEF Abstract!Next, Abstract!Reseat, Due, Away

LEMMA AbstractLose ==
  ASSUME Due' = Due, Away \subseteq Away', Host \notin Away',
         UNCHANGED <<connections, console, answered>>
  PROVE  Abstract!Next
BY DEF Abstract!Next, Abstract!LoseConsole, Due, Away

LEMMA AbstractDrop ==
  ASSUME Due' \subseteq Due, Away' = Away, \A x \in Due \ Due' : x.on \in Away,
         UNCHANGED <<connections, console, answered>>
  PROVE  Abstract!Next
BY DEF Abstract!Next, Abstract!Drop, Due, Away

LEMMA AbstractShow ==
  ASSUME NEW x \in Due,
         \A y \in Due : y.on = x.on /\ y.line.from = x.line.from => x.line.n <= y.line.n,
         Due' = Due \ {x}, Away' = Away,
         console' = [console EXCEPT ![x.on] = Append(@, [line |-> x.line, kind |-> x.kind])],
         UNCHANGED <<connections, answered>>
  PROVE  Abstract!Next
<1>1. Abstract!Show(x)
  BY DEF Abstract!Show, Due, Away
<1>2. QED
  BY <1>1 DEF Abstract!Next, Due

LEMMA AbstractAnswer ==
  ASSUME NEW line, line \notin answered,
         \A l \in answered : l.from = line.from => l.n < line.n,
         answered' = answered \cup {line}, Away' = Away, UNCHANGED <<connections, console>>,
         \/ (line.to = All \/ Abstract!Meant(line) # {}) /\ Due' = Due \cup Abstract!Routed(line)
         \/ /\ line.to # All /\ Abstract!Meant(line) = {}
            /\ Due' = Due \cup {Item(line, "unknown", line.from)}
         \/ line.from # Host /\ Due' = Due \cup {Item(line, "slow", line.from)}
  PROVE  Abstract!Next
<1>1. \A kind, p : Abstract!Item(line, kind, p) = Item(line, kind, p)
  BY DEF Abstract!Item, Item
<1>2. Abstract!Answer(line)
  BY <1>1 DEF Abstract!Answer, Due, Away
<1>3. line \in answered' \ answered
  OBVIOUS
<1>4. QED
  BY <1>2, <1>3 DEF Abstract!Next

\* A line that is answered now was answered never before, and is the latest.
LEMMA AnsweredIsLatest ==
  ASSUME ChatTypeOK, Lines, Answers, NEW s \in Speakers, NEW line \in Line,
         \/ ~Busy(s) /\ said[s] # << >> /\ line = Head(said[s])
         \/ job[s].stage = "routing" /\ line = job[s].line
  PROVE  /\ line.from = s
         /\ line \notin answered
         /\ \A l \in answered : l.from = line.from => l.n < line.n
<1>1. line.from = s /\ \A l \in answered : l.from = s => l.n < line.n
  <2>1. CASE ~Busy(s) /\ said[s] # << >> /\ line = Head(said[s])
    <3>1. line = said[s][1] /\ 1 \in 1 .. Len(said[s])
      BY <2>1, HeadAndTail DEF ChatTypeOK
    <3>2. line.from = s
      BY <3>1 DEF Lines, LinesOf
    <3>3. ASSUME NEW l \in answered, l.from = s PROVE l.n < line.n
      <4>1. \A i \in 1 .. Len(said[s]) : l.n < said[s][i].n
        BY <3>3 DEF Answers, Settled
      <4>2. QED
        BY <3>1, <4>1
    <3>4. QED
      BY <3>2, <3>3
  <2>2. CASE job[s].stage = "routing" /\ line = job[s].line
    <3>1. Busy(s)
      BY <2>2 DEF Busy
    <3>2. QED
      BY <2>2, <3>1 DEF Lines, LinesOf, Answers, Settled
  <2>3. QED
    BY <2>1, <2>2
<1>2. line.n \in Nat
  BY LineParts
<1>3. line \notin answered
  BY <1>1, <1>2
<1>4. QED
  BY <1>1, <1>3

\* Who a name means, now.
LEMMA MeantNow ==
  ASSUME ChatTypeOK, Seats, NEW line
  PROVE  /\ Abstract!Meant(line) = ConnectionOf(FirstWord(line.to))
                                     \cup (IF FirstWord(line.to) = HostName THEN {Host} ELSE {})
         /\ ConnectionOf(HostName) = {}
         /\ \A name : ConnectionOf(name) \in SUBSET Conns
         /\ \A name : name \notin Roster => ConnectionOf(name) = {} /\ name # HostName
<1> DEFINE target == FirstWord(line.to)
<1>1. Abstract!FirstWord(line.to) = target
  BY DEF Abstract!FirstWord, FirstWord
<1>2. Abstract!Present = connections \cup {[name |-> HostName, conn |-> Host]}
  BY DEF Abstract!Present
<1>3. Abstract!Meant(line) = {e.conn : e \in {f \in Abstract!Present : f.name = target}}
  BY <1>1 DEF Abstract!Meant
<1> HIDE DEF target
<1>4. Abstract!Meant(line) = ConnectionOf(target) \cup (IF target = HostName THEN {Host} ELSE {})
  <2> DEFINE chair == [name |-> HostName, conn |-> Host]
  <2>1. chair.name = HostName /\ chair.conn = Host
    OBVIOUS
  <2> HIDE DEF chair
  <2>2. Abstract!Present = connections \cup {chair}
    BY <1>2 DEF chair
  <2>3. QED
    BY <1>3, <2>1, <2>2 DEF ConnectionOf
<1>5. ConnectionOf(HostName) = {}
  BY DEF Seats, ConnectionOf
<1>6. \A name : name \notin Roster => ConnectionOf(name) = {} /\ name # HostName
  BY DEF Roster, ConnectionOf
<1>7. QED
  BY <1>4, <1>5, <1>6, WhoIsConnected DEF target

\* A handler that has a line in hand finds itself, and the host nobody.
LEMMA SenderIsFound ==
  ASSUME ChatTypeOK, Seats, NEW s \in Speakers, Busy(s)
  PROVE  ConnectionOf(NameOf(s)) = IF s = Host THEN {} ELSE {s}
<1>1. CASE s = Host
  BY <1>1 DEF NameOf, Seats, ConnectionOf
<1>2. CASE s # Host
  <2>1. s \in Conns /\ InSeat(s) /\ NameOf(s) = named[s]
    BY <1>2, ChatTypes DEF NameOf, Busy, InSeat
  <2>2. [name |-> named[s], conn |-> s] \in connections
    BY <2>1 DEF Seats
  <2>3. \A e \in connections : e.name = named[s] => e.conn = s
    BY <2>1 DEF Seats
  <2>4. s \in ConnectionOf(named[s])
    BY <2>2 DEF ConnectionOf
  <2>5. \A c \in ConnectionOf(named[s]) : c = s
    BY <2>3 DEF ConnectionOf
  <2>6. QED
    BY <1>2, <2>1, <2>4, <2>5
<1>3. QED
  BY <1>1, <1>2

\* What a job makes due when it sends to these connections.
LEMMA SendingItems ==
  ASSUME NEW s, NEW line, NEW to, NEW host, job[s] = Sending(line, to, host)
  PROVE  ToBeSent(s) = {Item(line, d.kind, d.conn) : d \in to}
                         \cup (IF host = "none" THEN {} ELSE {Item(line, host, Host)})
<1>1. job[s].stage = "sending" /\ job[s].line = line /\ job[s].to = to /\ job[s].host = host
  BY DEF Sending
<1>2. {host} \ {"none"} = IF host = "none" THEN {} ELSE {host}
  OBVIOUS
<1>3. QED
  BY <1>1, <1>2, JobItems

ItemsOf(line, to) == {Item(line, d.kind, d.conn) : d \in to}

Copies(line, kind, conns) == {Item(line, kind, c) : c \in conns}

LEMMA ForItems ==
  ASSUME NEW line, NEW conns, NEW kind
  PROVE  ItemsOf(line, For(conns, kind)) = Copies(line, kind, conns)
<1>1. \A d \in For(conns, kind) : d.kind = kind /\ d.conn \in conns
  BY DEF For
<1>2. \A c \in conns : \E d \in For(conns, kind) : d.kind = kind /\ d.conn = c
  <2>1. ASSUME NEW c \in conns PROVE [conn |-> c, kind |-> kind] \in For(conns, kind)
    BY DEF For
  <2>2. QED
    BY <2>1
<1>3. QED
  BY <1>1, <1>2 DEF ItemsOf, Copies

LEMMA PlannedItems ==
  ASSUME ChatTypeOK, Seats, NEW s \in Speakers, job[s].stage = "routing", NEW line \in Line,
         line.from = s, job'[s] = Plan(s, line)
  PROVE  \/ (line.to = All \/ Abstract!Meant(line) # {}) /\ ToBeSent(s)' = Abstract!Routed(line)
         \/ /\ line.to # All /\ Abstract!Meant(line) = {}
            /\ ToBeSent(s)' = {Item(line, "unknown", s)}
<1> DEFINE target == FirstWord(line.to)
<1>1. \A kind, p : Abstract!Item(line, kind, p) = Item(line, kind, p)
  BY DEF Abstract!Item, Item
<1>2. \A to, host : job'[s] = Sending(line, to, host) =>
        ToBeSent(s)' = {Item(line, d.kind, d.conn) : d \in to}
                         \cup (IF host = "none" THEN {} ELSE {Item(line, host, Host)})
  <2> SUFFICES ASSUME NEW to, NEW host, job'[s] = Sending(line, to, host)
               PROVE  ToBeSent(s)' = {Item(line, d.kind, d.conn) : d \in to}
                         \cup (IF host = "none" THEN {} ELSE {Item(line, host, Host)})
    OBVIOUS
  <2>1. /\ job'[s].stage = "sending" /\ job'[s].line = line /\ job'[s].to = to
        /\ job'[s].host = host
    BY DEF Sending
  <2>2. ToBeSent(s)' = {Item(line, d.kind, d.conn) : d \in to}
                         \cup {Item(line, k, Host) : k \in {host} \ {"none"}}
    BY <2>1 DEF ToBeSent
  <2>3. {host} \ {"none"} = IF host = "none" THEN {} ELSE {host}
    OBVIOUS
  <2>4. QED
    BY <2>2, <2>3
<1>3. CASE line.to = All
  <2>1. job'[s] = Sending(line, For(Every, "line"), "line")
    BY <1>3 DEF Plan
  <2>2. ToBeSent(s)' = {Item(line, "line", c) : c \in Every} \cup {Item(line, "line", Host)}
    <3>1. ToBeSent(s)' = {Item(line, d.kind, d.conn) : d \in For(Every, "line")}
                           \cup {Item(line, "line", Host)}
      BY <1>2, <2>1
    <3>2. ItemsOf(line, For(Every, "line")) = Copies(line, "line", Every)
      BY ForItems
    <3>3. QED
      BY <3>1, <3>2 DEF ItemsOf, Copies
  <2>3. Abstract!Routed(line) = {Item(line, "line", e.conn) : e \in Abstract!Present}
    BY <1>1, <1>3 DEF Abstract!Routed
  <2>4. {Item(line, "line", e.conn) : e \in Abstract!Present}
          = {Item(line, "line", c) : c \in Every} \cup {Item(line, "line", Host)}
    <3> DEFINE chair == [name |-> HostName, conn |-> Host]
    <3>1. chair.conn = Host
      OBVIOUS
    <3> HIDE DEF chair
    <3>2. Abstract!Present = connections \cup {chair}
      BY DEF Abstract!Present, chair
    <3>3. QED
      BY <3>1, <3>2 DEF Every
  <2>5. QED
    BY <1>3, <2>2, <2>3, <2>4
<1>4. CASE line.to # All /\ target \notin Roster
  <2>1. job'[s] = With("unknown", line)
    BY <1>4 DEF Plan
  <2>2. job'[s].stage = "unknown" /\ job'[s].line = line
    BY <2>1 DEF With
  <2>3. ToBeSent(s)' = {Item(line, "unknown", s)}
    BY <2>2 DEF ToBeSent
  <2>4. Abstract!Meant(line) = {}
    BY <1>4, MeantNow
  <2>5. QED
    BY <1>4, <2>3, <2>4
<1>5. CASE line.to # All /\ target \in Roster
  <2> DEFINE lines == {Item(line, "line", c) : c \in ConnectionOf(target)}
             echoes == {Item(line, "echo", c) : c \in ConnectionOf(NameOf(s))}
             host == HostSees(target, s)
             atHost == IF host = "none" THEN {} ELSE {Item(line, host, Host)}
  <2>1. ToBeSent(s)' = lines \cup echoes \cup atHost
    <3>1. job'[s] = Sending(line, For(ConnectionOf(target), "line")
                                    \cup For(ConnectionOf(NameOf(s)), "echo"), host)
      BY <1>5 DEF Plan
    <3>2. {Item(line, d.kind, d.conn) :
             d \in For(ConnectionOf(target), "line") \cup For(ConnectionOf(NameOf(s)), "echo")}
            = {Item(line, d.kind, d.conn) : d \in For(ConnectionOf(target), "line")}
                \cup {Item(line, d.kind, d.conn) : d \in For(ConnectionOf(NameOf(s)), "echo")}
      OBVIOUS
    <3>3. {Item(line, d.kind, d.conn) : d \in For(ConnectionOf(target), "line")} = lines
      <4>1. PICK conns : conns = ConnectionOf(target)
        OBVIOUS
      <4>2. ItemsOf(line, For(conns, "line")) = Copies(line, "line", conns)
        BY ForItems
      <4>3. QED
        BY <4>1, <4>2 DEF ItemsOf, Copies
    <3>4. {Item(line, d.kind, d.conn) : d \in For(ConnectionOf(NameOf(s)), "echo")} = echoes
      <4>1. PICK conns : conns = ConnectionOf(NameOf(s))
        OBVIOUS
      <4>2. ItemsOf(line, For(conns, "echo")) = Copies(line, "echo", conns)
        BY ForItems
      <4>3. QED
        BY <4>1, <4>2 DEF ItemsOf, Copies
    <3> HIDE DEF lines, echoes, host, target
    <3>5. QED
      BY <1>2, <3>1, <3>2, <3>3, <3>4
  <2>2. Abstract!Meant(line) # {}
    <3>1. target = HostName \/ ConnectionOf(target) # {}
      BY <1>5 DEF Roster, ConnectionOf
    <3>2. QED
      BY <3>1, MeantNow
  <2>3. Abstract!Routed(line) =
          {Item(line, "line", p) : p \in Abstract!Meant(line)}
            \cup {Item(line, "echo", p) : p \in {s} \ (Abstract!Meant(line) \cap {Host})}
    BY <1>1, <1>5 DEF Abstract!Routed
  <2>4. echoes = IF s = Host THEN {} ELSE {Item(line, "echo", s)}
    <3>1. ConnectionOf(NameOf(s)) = IF s = Host THEN {} ELSE {s}
      BY SenderIsFound DEF Busy
    <3>2. QED
      BY <3>1
  <2>5. Host \notin Conns /\ ConnectionOf(target) \in SUBSET Conns
    BY ChatTypes, MeantNow
  <2>6. CASE target = HostName
    <3>1. Abstract!Meant(line) = {Host} /\ lines = {}
      BY <2>6, MeantNow
    <3>2. host = "line" /\ atHost = {Item(line, "line", Host)}
      BY <2>6 DEF HostSees
    <3>3. Abstract!Routed(line) = {Item(line, "line", Host)}
                                    \cup (IF s = Host THEN {} ELSE {Item(line, "echo", s)})
      BY <2>3, <3>1
    <3> HIDE DEF lines, echoes, atHost
    <3>4. ToBeSent(s)' = Abstract!Routed(line)
      BY <2>1, <2>4, <3>1, <3>2, <3>3
    <3>5. QED
      BY <2>2, <3>4
  <2>7. CASE target # HostName
    <3>1. Abstract!Meant(line) = ConnectionOf(target)
      BY <2>7, MeantNow
    <3>2. Abstract!Routed(line) = lines \cup {Item(line, "echo", s)}
      <4>1. {s} \ (Abstract!Meant(line) \cap {Host}) = {s}
        BY <2>5, <3>1
      <4>2. QED
        BY <2>3, <3>1, <4>1
    <3>3. atHost = IF s = Host THEN {Item(line, "echo", s)} ELSE {}
      BY <2>7 DEF HostSees
    <3> HIDE DEF lines, echoes, atHost
    <3>4. ToBeSent(s)' = Abstract!Routed(line)
      BY <2>1, <2>4, <3>2, <3>3
    <3>5. QED
      BY <2>2, <3>4
  <2>8. QED
    BY <2>6, <2>7
<1>6. QED
  BY <1>3, <1>4, <1>5

(* Each step of Chat is a step of Delivery, or none. *)

\* Nobody came or went, and nothing that is due changed.
LEMMA QuietStep ==
  ASSUME ChatTypeOK, NEW s \in Speakers, \A t \in Speakers : t # s => job'[t] = job[t],
         ToBeSent(s)' = ToBeSent(s), UNCHANGED wire
  PROVE  Due' = Due
<1>1. Due' = OnTheWire \cup Others(s) \cup ToBeSent(s)'
  BY DueMoves
<1>2. QED
  BY <1>1, DueParts

LEMMA StepEnter ==
  ASSUME ChatTypeOK, Seats, NEW c \in Conns, Enter(c)
  PROVE  Abstract!Next
<1>1. /\ job \in [Speakers -> Job] /\ c \in Speakers
      /\ link \in [Conns -> {"none", "up", "down"}]
  BY ChatTypes
<1>2. /\ job[c].stage = "out" /\ job' = [job EXCEPT ![c] = At("settling")]
      /\ link' = [link EXCEPT ![c] = "up"]
      /\ UNCHANGED <<wire, console, answered>>
  BY DEF Enter, Become
<1>3. /\ \A t \in Speakers : t # c => job'[t] = job[t]
      /\ job'[c].stage = "settling"
  BY <1>1, <1>2 DEF At
<1>4. ToBeSent(c) = {} /\ ToBeSent(c)' = {}
  BY <1>2, <1>3 DEF ToBeSent
<1>5. Due' = Due
  BY <1>1, <1>2, <1>3, <1>4, QuietStep
<1>6. link[c] = "none"
  BY <1>2 DEF Seats
<1>7. Away' = Away
  BY <1>1, <1>2, <1>6 DEF Away
<1>8. QED
  BY <1>2, <1>5, <1>7, AbstractReseat

LEMMA StepQuit ==
  ASSUME ChatTypeOK, NEW c \in Conns, Quit(c)
  PROVE  Abstract!Next
<1>1. job \in [Speakers -> Job] /\ c \in Speakers
  BY ChatTypes
<1>2. /\ job[c].stage \in {"settling", "waiting"} /\ job' = [job EXCEPT ![c] = At("done")]
      /\ UNCHANGED <<link, wire, console, answered>>
  BY DEF Quit, Become
<1>3. /\ \A t \in Speakers : t # c => job'[t] = job[t]
      /\ job'[c].stage = "done"
  BY <1>1, <1>2 DEF At
<1>4. ToBeSent(c) = {} /\ ToBeSent(c)' = {}
  BY <1>2, <1>3 DEF ToBeSent
<1>5. Due' = Due
  BY <1>1, <1>2, <1>3, <1>4, QuietStep
<1>6. Away' = Away
  BY <1>2 DEF Away
<1>7. QED
  BY <1>2, <1>5, <1>6, AbstractReseat

LEMMA StepServe ==
  ASSUME ChatTypeOK, NEW c \in Conns, Serve(c)
  PROVE  UNCHANGED Abstract!deliveryVars
<1>1. job \in [Speakers -> Job] /\ c \in Speakers
  BY ChatTypes
<1>2. /\ job[c].stage = "settling" /\ job' = [job EXCEPT ![c] = At("waiting")]
      /\ UNCHANGED <<connections, link, wire, console, answered>>
  BY DEF Serve, Become, seatingVars
<1>3. /\ \A t \in Speakers : t # c => job'[t] = job[t]
      /\ job'[c].stage = "waiting"
  BY <1>1, <1>2 DEF At
<1>4. ToBeSent(c) = {} /\ ToBeSent(c)' = {}
  BY <1>2, <1>3 DEF ToBeSent
<1>5. Due' = Due
  BY <1>1, <1>2, <1>3, <1>4, QuietStep
<1>6. Away' = Away
  BY <1>2 DEF Away
<1>7. QED
  BY <1>2, <1>5, <1>6, AbstractStutter

LEMMA StepNothing ==
  ASSUME UNCHANGED <<connections, link, job, wire, console, answered>>
  PROVE  UNCHANGED Abstract!deliveryVars
<1>1. Due' = Due /\ Away' = Away
  BY DEF Due, Away, OnTheWire, ToBeSent
<1>2. QED
  BY <1>1, AbstractStutter

LEMMA StepLose ==
  ASSUME ChatTypeOK, NEW c \in Conns, Lose(c)
  PROVE  Abstract!Next
<1>1. /\ link[c] = "up" /\ link' = [link EXCEPT ![c] = "down"]
      /\ UNCHANGED <<connections, job, wire, console, answered>>
  BY DEF Lose, seatingVars
<1>2. Due' = Due
  BY <1>1 DEF Due, OnTheWire, ToBeSent
<1>3. Away \subseteq Away' /\ Host \notin Away'
  BY <1>1, ChatTypes DEF Away
<1>4. QED
  BY <1>1, <1>2, <1>3, AbstractLose

LEMMA StepRead ==
  ASSUME ChatTypeOK, Lines, Answers, NEW c \in Conns, Read(c)
  PROVE  Abstract!Next \/ UNCHANGED Abstract!deliveryVars
<1>1. job \in [Speakers -> Job] /\ c \in Speakers /\ c # Host /\ said \in [Speakers -> Seq(Line)]
  BY ChatTypes
<1>2. /\ job[c].stage = "waiting" /\ said[c] # << >>
      /\ UNCHANGED <<connections, link, wire, console>>
  BY DEF Read, seatingVars
<1>3. PICK line \in Line : line = Head(said[c])
  BY <1>1, <1>2, HeadAndTail
<1>4. ToBeSent(c) = {}
  BY <1>2 DEF ToBeSent
<1>5. Away' = Away
  BY <1>2 DEF Away
<1>6. CASE job' = [job EXCEPT ![c] = With("routing", line)] /\ UNCHANGED answered
  <2>1. /\ \A t \in Speakers : t # c => job'[t] = job[t]
        /\ job'[c].stage = "routing"
    BY <1>1, <1>6 DEF With
  <2>2. ToBeSent(c)' = {}
    BY <2>1 DEF ToBeSent
  <2>3. Due' = Due
    BY <1>1, <1>2, <1>4, <2>1, <2>2, QuietStep
  <2>4. QED
    BY <1>2, <1>5, <1>6, <2>3, AbstractStutter
<1>7. CASE /\ job' = [job EXCEPT ![c] = Sending(line, For({c}, "slow"), "none")]
           /\ answered' = answered \cup {line}
  <2>1. /\ \A t \in Speakers : t # c => job'[t] = job[t]
        /\ job'[c].stage = "sending" /\ job'[c].line = line
        /\ job'[c].to = For({c}, "slow") /\ job'[c].host = "none"
    BY <1>1, <1>7 DEF Sending
  <2>2. ToBeSent(c)' = {Item(line, d.kind, d.conn) : d \in For({c}, "slow")}
    BY <2>1 DEF ToBeSent
  <2>3. {Item(line, d.kind, d.conn) : d \in For({c}, "slow")} = {Item(line, "slow", c)}
    <3>1. PICK me : me = {c}
      OBVIOUS
    <3>2. ItemsOf(line, For(me, "slow")) = Copies(line, "slow", me)
      BY ForItems
    <3>3. Copies(line, "slow", me) = {Item(line, "slow", c)}
      BY <3>1 DEF Copies
    <3>4. QED
      BY <3>1, <3>2, <3>3 DEF ItemsOf
  <2>4. Due' = Due \cup {Item(line, "slow", c)}
    <3>1. Due' = OnTheWire \cup Others(c) \cup ToBeSent(c)'
      BY <1>1, <1>2, <2>1, DueMoves
    <3>2. Due = OnTheWire \cup Others(c) \cup ToBeSent(c)
      BY <1>1, DueParts
    <3>3. QED
      BY <1>4, <2>2, <2>3, <3>1, <3>2
  <2>5. /\ line.from = c /\ line \notin answered
        /\ \A l \in answered : l.from = line.from => l.n < line.n
    BY <1>1, <1>2, <1>3, AnsweredIsLatest DEF Busy
  <2>6. line.from # Host /\ Due' = Due \cup {Item(line, "slow", line.from)}
    BY <1>1, <2>4, <2>5
  <2>7. QED
    BY <1>2, <1>5, <1>7, <2>5, <2>6, AbstractAnswer
<1>8. QED
  BY <1>3, <1>6, <1>7 DEF Read, Become

LEMMA StepReadHost ==
  ASSUME ChatTypeOK, ReadHost
  PROVE  UNCHANGED Abstract!deliveryVars
<1>1. job \in [Speakers -> Job] /\ Host \in Speakers
  BY ChatTypes
<1>2. /\ job[Host].stage = "waiting"
      /\ job' = [job EXCEPT ![Host] = With("routing", Head(said[Host]))]
      /\ UNCHANGED <<connections, link, wire, console, answered>>
  BY DEF ReadHost, Become, seatingVars
<1>3. /\ \A t \in Speakers : t # Host => job'[t] = job[t]
      /\ job'[Host].stage = "routing"
  BY <1>1, <1>2 DEF With
<1>4. ToBeSent(Host) = {} /\ ToBeSent(Host)' = {}
  BY <1>2, <1>3 DEF ToBeSent
<1>5. Due' = Due
  BY <1>1, <1>2, <1>3, <1>4, QuietStep
<1>6. Away' = Away
  BY <1>2 DEF Away
<1>7. QED
  BY <1>2, <1>5, <1>6, AbstractStutter

LEMMA StepRoute ==
  ASSUME ChatTypeOK, Seats, Lines, Answers, NEW s \in Speakers, Route(s)
  PROVE  Abstract!Next
<1>1. job[s].stage = "routing" /\ UNCHANGED <<connections, link, wire, console>>
  BY DEF Route, seatingVars
<1>2. PICK line \in Line : line = job[s].line
  BY <1>1, HandIsLine DEF Busy
<1>3. /\ job'[s] = Plan(s, line) /\ answered' = answered \cup {line}
      /\ \A t \in Speakers : t # s => job'[t] = job[t]
  BY <1>2, LinesInHand
<1>4. /\ line.from = s /\ line \notin answered
      /\ \A l \in answered : l.from = line.from => l.n < line.n
  BY <1>1, <1>2, AnsweredIsLatest
<1>5. Due' = Due \cup ToBeSent(s)'
  <2>1. Due' = OnTheWire \cup Others(s) \cup ToBeSent(s)'
    BY <1>1, <1>3, DueMoves
  <2>2. Due = OnTheWire \cup Others(s) \cup ToBeSent(s)
    BY DueParts
  <2>3. ToBeSent(s) = {}
    BY <1>1 DEF ToBeSent
  <2>4. QED
    BY <2>1, <2>2, <2>3
<1>6. \/ (line.to = All \/ Abstract!Meant(line) # {}) /\ ToBeSent(s)' = Abstract!Routed(line)
      \/ /\ line.to # All /\ Abstract!Meant(line) = {}
         /\ ToBeSent(s)' = {Item(line, "unknown", s)}
  BY <1>1, <1>3, <1>4, PlannedItems
<1>7. Away' = Away
  BY <1>1 DEF Away
<1>8. \/ (line.to = All \/ Abstract!Meant(line) # {}) /\ Due' = Due \cup Abstract!Routed(line)
      \/ /\ line.to # All /\ Abstract!Meant(line) = {}
         /\ Due' = Due \cup {Item(line, "unknown", line.from)}
  BY <1>4, <1>5, <1>6
<1>9. QED
  BY <1>1, <1>3, <1>4, <1>7, <1>8, AbstractAnswer

LEMMA StepFindSender ==
  ASSUME ChatTypeOK, Seats, NEW s \in Speakers, FindSender(s)
  PROVE  UNCHANGED Abstract!deliveryVars
<1>1. job[s].stage = "unknown" /\ UNCHANGED <<connections, link, wire, console, answered>>
  BY DEF FindSender, seatingVars
<1>2. PICK line : line = job[s].line
  OBVIOUS
<1>3. PICK back : back = IF s = Host THEN {} ELSE {s}
  OBVIOUS
<1>4. ConnectionOf(NameOf(s)) = back
  BY <1>1, <1>3, SenderIsFound DEF Busy
<1>5. job' = [job EXCEPT ![s] = Sending(line, For(back, "unknown"),
                                        IF back = {} THEN "unknown" ELSE "none")]
  BY <1>2, <1>4 DEF FindSender, Become
<1>6. /\ \A t \in Speakers : t # s => job'[t] = job[t]
      /\ job'[s].stage = "sending" /\ job'[s].line = line /\ job'[s].to = For(back, "unknown")
      /\ job'[s].host = IF back = {} THEN "unknown" ELSE "none"
  BY <1>5 DEF Sending, ChatTypeOK
<1>7. ToBeSent(s)' = {Item(line, d.kind, d.conn) : d \in For(back, "unknown")}
                       \cup {Item(line, k, Host) : k \in {job'[s].host} \ {"none"}}
  BY <1>6 DEF ToBeSent
<1>8. {Item(line, d.kind, d.conn) : d \in For(back, "unknown")} = {Item(line, "unknown", c) : c \in back}
  <2>1. ItemsOf(line, For(back, "unknown")) = Copies(line, "unknown", back)
    BY ForItems
  <2>2. QED
    BY <2>1 DEF ItemsOf, Copies
<1>9. ToBeSent(s)' = {Item(line, "unknown", s)}
  BY <1>3, <1>6, <1>7, <1>8
<1>10. ToBeSent(s) = {Item(line, "unknown", s)}
  BY <1>1, <1>2 DEF ToBeSent
<1>11. Due' = Due
  BY <1>1, <1>6, <1>9, <1>10, QuietStep
<1>12. Away' = Away
  BY <1>1 DEF Away
<1>13. QED
  BY <1>1, <1>11, <1>12, AbstractStutter

\* What is on one wire, and on the others.
OnWire(c) == {Item(wire[c][i].line, wire[c][i].kind, c) : i \in DOMAIN wire[c]}

OtherWires(c) == UNION {OnWire(d) : d \in Conns \ {c}}

LEMMA WireMoves ==
  ASSUME NEW c \in Conns, \A d \in Conns : d # c => wire'[d] = wire[d]
  PROVE  /\ OnTheWire = OtherWires(c) \cup OnWire(c)
         /\ OnTheWire' = OtherWires(c) \cup OnWire(c)'
<1>1. OnTheWire = UNION {OnWire(d) : d \in Conns}
  BY DEF OnTheWire, OnWire
<1>2. OnTheWire = OtherWires(c) \cup OnWire(c)
  BY <1>1 DEF OtherWires
<1>3. OnTheWire' = UNION {OnWire(d)' : d \in Conns}
  BY DEF OnTheWire, OnWire
<1>4. \A d \in Conns \ {c} : OnWire(d)' = OnWire(d)
  BY DEF OnWire
<1>5. OnTheWire' = OtherWires(c) \cup OnWire(c)'
  BY <1>3, <1>4 DEF OtherWires
<1>6. QED
  BY <1>2, <1>5

LEMMA StepSendOne ==
  ASSUME ChatTypeOK, Receivers, NEW s \in Speakers, SendOne(s)
  PROVE  Abstract!Next \/ UNCHANGED Abstract!deliveryVars
<1>1. PICK d \in job[s].to :
         /\ d \in [conn : Conns, kind : Kind]
         /\ wire' = Sent(d.conn, Message(job[s].line, d.kind))
         /\ job' = [job EXCEPT ![s] = Sending(job[s].line, job[s].to \ {d}, job[s].host)]
         /\ Message(job[s].line, d.kind) \in Messages
         /\ job[s].stage = "sending"
         /\ UNCHANGED <<connections, link, console, answered>>
  BY OneIsSent
<1>2. PICK c \in Conns, line \in Line : c = d.conn /\ line = job[s].line
  BY <1>1, HandIsLine DEF Busy
<1>3. PICK m \in Messages : m = Message(line, d.kind) /\ m.line = line /\ m.kind = d.kind
  <2>1. /\ Message(line, d.kind).line = line /\ Message(line, d.kind).kind = d.kind
    BY DEF Message
  <2>2. QED
    BY <1>1, <1>2, <2>1
<1>4. PICK x : x = Item(line, d.kind, c)
  OBVIOUS
<1>5. /\ \A t \in Speakers : t # s => job'[t] = job[t]
      /\ job'[s].stage = "sending" /\ job'[s].line = line /\ job'[s].to = job[s].to \ {d}
      /\ job'[s].host = job[s].host
  BY <1>1, <1>2 DEF Sending, ChatTypeOK
<1>6. PICK host : host = {Item(line, k, Host) : k \in {job[s].host} \ {"none"}}
  OBVIOUS
<1>7. PICK rest : rest = {Item(line, e.kind, e.conn) : e \in job[s].to \ {d}}
  OBVIOUS
<1>8. ToBeSent(s) = rest \cup {x} \cup host
  <2>1. ToBeSent(s) = {Item(line, e.kind, e.conn) : e \in job[s].to} \cup host
    BY <1>1, <1>2, <1>6 DEF ToBeSent
  <2>2. {Item(line, e.kind, e.conn) : e \in job[s].to} = rest \cup {x}
    BY <1>1, <1>2, <1>4, <1>7
  <2>3. QED
    BY <2>1, <2>2
<1>9. ToBeSent(s)' = rest \cup host
  BY <1>5, <1>6, <1>7 DEF ToBeSent
<1>10. Others(s)' = Others(s)
  BY <1>5, OthersStay
<1>11. /\ Due = OnTheWire \cup Others(s) \cup ToBeSent(s)
       /\ Due' = OnTheWire' \cup Others(s)' \cup ToBeSent(s)'
  BY DEF Due, Others
<1>12. Away' = Away
  BY <1>1 DEF Away
<1>13. CASE link[c] = "up"
  <2>1. wire' = [wire EXCEPT ![c] = Append(wire[c], m)] /\ wire \in [Conns -> Seq(Messages)]
    BY <1>1, <1>2, <1>3, <1>13, ChatTypes DEF Sent
  <2>2. OnTheWire' = OnTheWire \cup {x}
    <3>1. wire'[c] = Append(wire[c], m) /\ \A e \in Conns : e # c => wire'[e] = wire[e]
      BY <2>1
    <3>2. /\ Len(wire[c]) \in Nat
          /\ DOMAIN wire[c] = 1 .. Len(wire[c]) /\ DOMAIN wire'[c] = 1 .. Len(wire[c]) + 1
          /\ \A i \in 1 .. Len(wire[c]) : wire'[c][i] = wire[c][i]
          /\ wire'[c][Len(wire[c]) + 1] = m
      <4>1. wire[c] \in Seq(Messages) /\ Append(wire[c], m) \in Seq(Messages)
        BY <2>1
      <4>2. QED
        BY <3>1, <4>1, AppendParts
    <3>3. OnWire(c)' = OnWire(c) \cup {x}
      <4>1. DOMAIN wire'[c] = DOMAIN wire[c] \cup {Len(wire[c]) + 1}
        BY <3>2
      <4>2. \A i \in DOMAIN wire[c] : wire'[c][i] = wire[c][i]
        BY <3>2
      <4>3. x = Item(wire'[c][Len(wire[c]) + 1].line, wire'[c][Len(wire[c]) + 1].kind, c)
        BY <1>3, <1>4, <3>2
      <4>4. QED
        BY <4>1, <4>2, <4>3 DEF OnWire
    <3>4. QED
      BY <3>1, <3>3, WireMoves
  <2>3. Due' = Due
    BY <1>8, <1>9, <1>10, <1>11, <2>2
  <2>4. QED
    BY <1>1, <1>12, <2>3, AbstractStutter
<1>14. CASE link[c] # "up"
  <2>1. link[c] # "none"
    BY <1>1, <1>2 DEF Receivers
  <2>2. link[c] = "down"
    BY <1>14, <2>1, ChatTypes
  <2>3. c \in Away /\ x.on = c
    BY <1>4, <2>2 DEF Away, Item
  <2>4. UNCHANGED wire
    BY <1>1, <1>2, <1>14 DEF Sent
  <2>5. OnTheWire' = OnTheWire
    BY <2>4, WiresStay
  <2>6. Due' \subseteq Due /\ Due \ Due' \subseteq {x}
    BY <1>8, <1>9, <1>10, <1>11, <2>5
  <2>7. \A y \in Due \ Due' : y.on \in Away
    BY <2>3, <2>6
  <2>8. QED
    BY <1>1, <1>12, <2>6, <2>7, AbstractDrop
<1>15. QED
  BY <1>13, <1>14

\* An item is what it is of.
LEMMA ItemParts ==
  ASSUME NEW line, NEW kind, NEW on
  PROVE  /\ Item(line, kind, on).line = line
         /\ Item(line, kind, on).kind = kind
         /\ Item(line, kind, on).on = on
BY DEF Item

LEMMA StepFinish ==
  ASSUME ChatTypeOK, Lines, NEW s \in Speakers, Finish(s)
  PROVE  Abstract!Next \/ UNCHANGED Abstract!deliveryVars
<1>1. /\ job[s].stage = "sending" /\ job[s].to = {}
      /\ UNCHANGED <<connections, link, wire, answered>>
  BY DEF Finish, seatingVars
<1>2. /\ job'[s].stage = "waiting" /\ \A t \in Speakers : t # s => job'[t] = job[t]
  BY LinesInHand
<1>3. PICK line \in Line, host \in {job[s].host} : line = job[s].line /\ host = job[s].host
  BY <1>1, HandIsLine DEF Busy
<1>4. Due' = OnTheWire \cup Others(s)
  <2>1. ToBeSent(s)' = {}
    BY <1>2 DEF ToBeSent
  <2>2. QED
    BY <1>1, <1>2, <2>1, DueMoves
<1>5. Due = OnTheWire \cup Others(s) \cup ToBeSent(s)
  BY DueParts
<1>6. ToBeSent(s) = {Item(line, k, Host) : k \in {host} \ {"none"}}
  BY <1>1, <1>3 DEF ToBeSent
<1>7. Away' = Away
  BY <1>1 DEF Away
<1>8. CASE host = "none"
  <2>1. ToBeSent(s) = {}
    BY <1>6, <1>8
  <2>2. Due' = Due
    BY <1>4, <1>5, <2>1
  <2>3. UNCHANGED console
    BY <1>3, <1>8 DEF Finish
  <2>4. QED
    BY <1>1, <1>7, <2>2, <2>3, AbstractStutter
<1>9. CASE host # "none"
  <2>1. PICK x : x = Item(line, host, Host)
    OBVIOUS
  <2>2. x.line = line /\ x.kind = host /\ x.on = Host
    BY <2>1, ItemParts
  <2>3. ToBeSent(s) = {x}
    BY <1>6, <1>9, <2>1
  <2>4. line.from = s /\ line.n \in Nat
    BY <1>1, <1>3, LineParts DEF Lines, LinesOf, Busy
  <2>5. \A y \in OnTheWire : y.on # Host
    BY WireItems, ItemParts, ChatTypes
  <2>6. \A t \in Speakers : \A y \in ToBeSent(t) : y.line.from = t
    BY ItemsOfSender
  <2>7. \A y \in Others(s) : y.line.from # s
    BY <2>6 DEF Others
  <2>8. \A y \in Due : y.on = x.on /\ y.line.from = x.line.from => y = x
    BY <1>5, <2>2, <2>3, <2>4, <2>5, <2>7
  <2>9. Due' = Due \ {x}
    BY <1>4, <1>5, <2>2, <2>3, <2>4, <2>5, <2>7
  <2>10. console' = [console EXCEPT ![x.on] = Append(@, [line |-> x.line, kind |-> x.kind])]
    BY <1>3, <1>9, <2>2 DEF Finish, Message
  <2>11. x \in Due
    BY <1>5, <2>3
  <2>12. \A y \in Due : y.on = x.on /\ y.line.from = x.line.from => x.line.n <= y.line.n
    BY <2>2, <2>4, <2>8
  <2>13. QED
    BY <1>1, <1>7, <2>9, <2>10, <2>11, <2>12, AbstractShow
<1>10. QED
  BY <1>8, <1>9

LEMMA StepDeaf ==
  ASSUME ChatTypeOK, NEW c \in Conns, Deaf(c)
  PROVE  Abstract!Next
<1>1. /\ link[c] = "down" /\ UNCHANGED <<connections, link, job, console, answered>>
      /\ wire'[c] = << >> /\ \A d \in Conns : d # c => wire'[d] = wire[d]
  BY ChatTypes DEF Deaf, seatingVars
<1>2. /\ OnTheWire = OtherWires(c) \cup OnWire(c)
      /\ OnTheWire' = OtherWires(c) \cup OnWire(c)'
  BY <1>1, WireMoves
<1>3. OnWire(c)' = {}
  BY <1>1 DEF OnWire
<1>4. \A x \in OnWire(c) : x.on = c
  BY ItemParts DEF OnWire
<1>5. \A s \in Speakers : ToBeSent(s)' = ToBeSent(s)
  BY <1>1 DEF ToBeSent
<1>6. PICK jobs : jobs = UNION {ToBeSent(s) : s \in Speakers}
  OBVIOUS
<1>7. Due = OnTheWire \cup jobs /\ Due' = OnTheWire' \cup jobs
  BY <1>5, <1>6 DEF Due
<1>8. Due' \subseteq Due /\ Due \ Due' \subseteq OnWire(c)
  BY <1>2, <1>3, <1>7
<1>9. c \in Away /\ Away' = Away
  BY <1>1 DEF Away
<1>10. QED
  BY <1>1, <1>4, <1>8, <1>9, AbstractDrop

LEMMA StepHear ==
  ASSUME ChatTypeOK, Lines, Wires, NEW c \in Conns, Hear(c)
  PROVE  Abstract!Next
<1>1. /\ UNCHANGED <<connections, link, job, answered>>
      /\ wire[c] # << >> /\ wire[c] \in Seq(Messages)
      /\ wire'[c] = Tail(wire[c]) /\ \A d \in Conns : d # c => wire'[d] = wire[d]
      /\ console' = [console EXCEPT ![c] = Append(@, Head(wire[c]))]
  BY ChatTypes DEF Hear, seatingVars
<1>2. PICK m \in Messages : m = Head(wire[c])
  BY <1>1, HeadAndTail
<1>3. /\ m = wire[c][1] /\ 1 \in 1 .. Len(wire[c])
      /\ Len(wire[c]) = Len(wire'[c]) + 1 /\ Len(wire'[c]) \in Nat
      /\ \A i \in 1 .. Len(wire'[c]) : wire'[c][i] = wire[c][i + 1] /\ i + 1 \in 1 .. Len(wire[c])
  BY <1>1, <1>2, HeadAndTail
<1>4. DOMAIN wire[c] = 1 .. Len(wire[c]) /\ DOMAIN wire'[c] = 1 .. Len(wire'[c])
  <2>1. Tail(wire[c]) \in Seq(Messages)
    BY <1>1, HeadAndTail
  <2>2. QED
    BY <1>1, <2>1
<1>5. m.line \in Line /\ m.line.n \in Nat /\ m.line.from \in Speakers
      /\ m = [line |-> m.line, kind |-> m.kind]
  BY LineParts DEF Messages
<1>6. PICK x : x = Item(m.line, m.kind, c)
  OBVIOUS
<1>7. x.line = m.line /\ x.kind = m.kind /\ x.on = c
  BY <1>6, ItemParts
<1>8. /\ OnTheWire = OtherWires(c) \cup OnWire(c)
      /\ OnTheWire' = OtherWires(c) \cup OnWire(c)'
  BY <1>1, WireMoves
<1>9. OnWire(c) = OnWire(c)' \cup {x}
  <2>1. \A i \in 1 .. Len(wire[c]) :
          i = 1 \/ \E j \in 1 .. Len(wire'[c]) : i = j + 1
    <3>1. \A i \in 1 .. Len(wire[c]) : i = 1 \/ (i - 1 \in 1 .. Len(wire'[c]) /\ i = (i - 1) + 1)
      BY <1>3
    <3>2. QED
      BY <3>1
  <2>2. OnWire(c) \subseteq OnWire(c)' \cup {x}
    <3>1. ASSUME NEW y \in OnWire(c), y # x PROVE y \in OnWire(c)'
      <4>1. PICK i \in 1 .. Len(wire[c]) : y = Item(wire[c][i].line, wire[c][i].kind, c)
        BY <1>4, <3>1 DEF OnWire
      <4>2. i # 1
        BY <1>3, <1>6, <3>1, <4>1
      <4>3. PICK j \in 1 .. Len(wire'[c]) : i = j + 1
        BY <2>1, <4>2
      <4>4. y = Item(wire'[c][j].line, wire'[c][j].kind, c)
        BY <1>3, <4>1, <4>3
      <4>5. QED
        BY <1>4, <4>4 DEF OnWire
    <3>2. QED
      BY <3>1
  <2>3. OnWire(c)' \subseteq OnWire(c)
    BY <1>3, <1>4 DEF OnWire
  <2>4. x \in OnWire(c)
    BY <1>3, <1>4, <1>6 DEF OnWire
  <2>5. QED
    BY <2>2, <2>3, <2>4
\* What follows on the wire is another message, and no older.
<1>10. ASSUME NEW y \in OnWire(c)'
       PROVE  y # x /\ y.on = c /\ (y.line.from = x.line.from => x.line.n <= y.line.n)
  <2>1. PICK i \in 1 .. Len(wire'[c]) : y = Item(wire'[c][i].line, wire'[c][i].kind, c)
    BY <1>4, <1>10 DEF OnWire
  <2>2. PICK o : o = wire[c][i + 1]
    OBVIOUS
  <2>3. o = wire'[c][i] /\ i + 1 \in 1 .. Len(wire[c]) /\ 1 < i + 1
    BY <1>3, <2>2
  <2>4. y.line = o.line /\ y.kind = o.kind /\ y.on = c
    BY <2>1, <2>3, ItemParts
  <2>5. InOrder(m, o)
    BY <1>3, <2>2, <2>3 DEF Wires, Queued
  <2>6. o \in Messages
    BY <1>1, <2>2, <2>3
  <2>7. o.line.n \in Nat
    BY <2>6, LineParts DEF Messages
  <2>8. y.line.from = x.line.from => x.line.n <= y.line.n
    BY <1>5, <1>7, <2>4, <2>5, <2>7 DEF InOrder
  <2>9. y # x
    BY <1>5, <1>7, <2>4, <2>5, <2>7 DEF InOrder
  <2>10. QED
    BY <2>4, <2>8, <2>9
<1>11. \A y \in OtherWires(c) : y.on # c
  BY ItemParts DEF OtherWires, OnWire
\* What its sender has still to send is another message, and no older.
<1>12. ASSUME NEW s \in Speakers, NEW y \in ToBeSent(s)
       PROVE  y # x /\ (y.on = c /\ y.line.from = x.line.from => x.line.n <= y.line.n)
  <2>1. Busy(s) /\ y.line = job[s].line /\ y.line.from = s /\ y.line.n \in Nat
    BY <1>12, ItemsOfSender
  <2>2. CASE m.line.from # s
    BY <1>7, <2>1, <2>2
  <2>3. CASE m.line.from = s
    <3>1. Placed(m, c)
      BY <1>3 DEF Wires, Queued
    <3>2. Before(m, c, s)
      BY <3>1 DEF Placed
    <3>3. CASE m.line.n < job[s].line.n
      BY <1>5, <1>7, <2>1, <3>3
    <3>4. CASE /\ job[s].stage = "sending" /\ m.line.n = job[s].line.n
               /\ [conn |-> c, kind |-> m.kind] \notin job[s].to
      <4>1. x.line.n <= y.line.n
        BY <1>5, <1>7, <2>1, <3>4
      <4>2. \/ \E d \in job[s].to : y = Item(job[s].line, d.kind, d.conn)
            \/ \E k : y = Item(job[s].line, k, Host)
        BY <1>12, <3>4, JobItems
      <4>3. \A d \in job[s].to : d = [conn |-> d.conn, kind |-> d.kind]
        <5>1. job[s].to \in SUBSET [conn : Conns, kind : Kind]
          BY <3>4, ChatTypes, JobParts
        <5>2. QED
          BY <5>1
      <4>4. y # x
        <5>1. CASE \E d \in job[s].to : y = Item(job[s].line, d.kind, d.conn)
          <6>1. PICK d \in job[s].to : y = Item(job[s].line, d.kind, d.conn)
            BY <5>1
          <6>2. y.kind = d.kind /\ y.on = d.conn
            BY <6>1, ItemParts
          <6>3. QED
            BY <1>7, <3>4, <4>3, <6>2
        <5>2. CASE \E k : y = Item(job[s].line, k, Host)
          <6>1. y.on = Host
            BY <5>2, ItemParts
          <6>2. QED
            BY <1>7, <6>1, ChatTypes
        <5>3. QED
          BY <4>2, <5>1, <5>2
      <4>5. QED
        BY <4>1, <4>4
    <3>5. job[s].stage \in {"unknown", "sending"}
      BY <1>12, JobItems
    <3>6. QED
      BY <2>3, <3>2, <3>3, <3>4, <3>5 DEF Before
  <2>4. QED
    BY <2>2, <2>3
<1>13. PICK jobs : jobs = UNION {ToBeSent(s) : s \in Speakers}
  OBVIOUS
<1>14. Due = OnTheWire \cup jobs /\ Due' = OnTheWire' \cup jobs
  <2>1. \A s \in Speakers : ToBeSent(s)' = ToBeSent(s)
    BY <1>1 DEF ToBeSent
  <2>2. QED
    BY <1>13, <2>1 DEF Due
<1>15. \A y \in jobs : y # x /\ (y.on = c /\ y.line.from = x.line.from => x.line.n <= y.line.n)
  BY <1>12, <1>13
<1>16. \A y \in Due : y.on = x.on /\ y.line.from = x.line.from => x.line.n <= y.line.n
  BY <1>5, <1>7, <1>8, <1>9, <1>10, <1>11, <1>14, <1>15
<1>17. x \in Due
  BY <1>8, <1>9, <1>14
<1>18. Due' = Due \ {x}
  BY <1>7, <1>8, <1>9, <1>10, <1>11, <1>14, <1>15
<1>19. console' = [console EXCEPT ![x.on] = Append(@, [line |-> x.line, kind |-> x.kind])]
  BY <1>1, <1>2, <1>5, <1>7
<1>20. Away' = Away
  BY <1>1 DEF Away
<1>21. QED
  BY <1>1, <1>16, <1>17, <1>18, <1>19, <1>20, AbstractShow

-----------------------------------------------------------------------------

\* A step of Delivery, or none.
Kept == Abstract!Next \/ UNCHANGED Abstract!deliveryVars

LEMMA ChatStepIsDelivery ==
  ASSUME ChatInv, [ChatNext]_chatVars
  PROVE  [Abstract!Next]_(Abstract!deliveryVars)
<1> SUFFICES Kept
  BY DEF Kept
<1>1. ChatTypeOK /\ Seats /\ Lines /\ Answers /\ Wires /\ Receivers
  BY DEF ChatInv
<1>2. ASSUME NEW c \in Conns,
             \/ Enter(c) \/ Serve(c) \/ Lose(c) \/ Quit(c) \/ Read(c)
             \/ Hear(c) \/ Deaf(c)
      PROVE  Kept
  BY <1>1, <1>2, StepEnter, StepServe, StepLose, StepQuit, StepRead, StepHear, StepDeaf DEF Kept
<1>3. ASSUME NEW s \in Speakers, Say(s) PROVE Kept
  BY <1>3, StepNothing DEF Say, seatingVars, Kept
<1>4. ASSUME NEW s \in Speakers, Route(s) \/ FindSender(s) \/ SendOne(s) \/ Finish(s)
      PROVE  Kept
  BY <1>1, <1>4, StepRoute, StepFindSender, StepSendOne, StepFinish DEF Kept
<1>5. CASE ReadHost
  BY <1>1, <1>5, StepReadHost DEF Kept
<1>6. CASE UNCHANGED chatVars
  BY <1>6, StepNothing DEF chatVars, seatingVars, Kept
<1>7. CASE ChatNext
  <2>1. CASE \E c \in Conns :
               \/ Enter(c) \/ Serve(c) \/ Lose(c) \/ Quit(c) \/ Read(c)
               \/ Hear(c) \/ Deaf(c)
    BY <1>2, <2>1
  <2>2. CASE \E s \in Speakers :
               \/ Say(s) \/ Route(s) \/ FindSender(s) \/ SendOne(s) \/ Finish(s)
    BY <1>3, <1>4, <2>2
  <2>3. QED
    BY <1>5, <1>7, <2>1, <2>2, ChatSteps
<1>8. QED
  BY <1>6, <1>7

LEMMA ChatStartsAsDelivery ==
  ASSUME ChatInit
  PROVE  Abstract!Init
<1>1. \A s \in Speakers : ToBeSent(s) = {}
  <2>1. \A s \in Speakers : job[s].stage \notin {"unknown", "sending"}
    BY DEF ChatInit, At
  <2>2. QED
    BY <2>1, JobItems
<1>2. OnTheWire = {}
  BY DEF OnTheWire, ChatInit
<1>3. Due = {}
  BY <1>1, <1>2 DEF Due
<1>4. Away = {}
  BY DEF Away, ChatInit
<1>5. QED
  BY <1>3, <1>4 DEF ChatInit, Abstract!Init, Due, Away

\* Chat as Delivery promises it: whatever order the handlers, their sends, the
\* readers and the players that come and go take, it is as if `route_chat` had
\* answered each line at one moment, once, for exactly those it was for at that
\* moment, and each of them had then been shown it once, one sender's lines in
\* the order they were said.
THEOREM ChatIsRoutedAtOnce == ChatSpec => RoutedAtOnce
<1>1. QED
  BY ChatInvariant, ChatStartsAsDelivery, ChatStepIsDelivery, PTL
     DEF ChatSpec, RoutedAtOnce, Abstract!Spec

-----------------------------------------------------------------------------
(* Voice. *)


-----------------------------------------------------------------------------
(* The end of a sequence, element by element.                              *)

Ends(part, whole) ==
  /\ Len(part) <= Len(whole)
  /\ \A i \in 1..Len(part) : part[i] = whole[Len(whole) - Len(part) + i]

(* A sequence cut at its front is an end of it.                            *)
LEMMA CutIsEnd ==
  ASSUME NEW S, NEW s \in Seq(S), NEW n \in 1..Len(s) + 1
  PROVE  /\ SubSeq(s, n, Len(s)) \in Seq(S)
         /\ Len(SubSeq(s, n, Len(s))) = Len(s) + 1 - n
         /\ Ends(SubSeq(s, n, Len(s)), s)
<1>1. Len(s) \in Nat /\ n \in Int /\ \A i \in n..Len(s) : s[i] \in S
  BY LenProperties
<1>2. /\ SubSeq(s, n, Len(s)) \in Seq(S)
      /\ Len(SubSeq(s, n, Len(s))) = IF n <= Len(s) THEN Len(s) - n + 1 ELSE 0
      /\ \A i \in 1..Len(s) - n + 1 : SubSeq(s, n, Len(s))[i] = s[n + i - 1]
  BY <1>1, SubSeqProperties
<1>3. Len(SubSeq(s, n, Len(s))) = Len(s) + 1 - n
  BY <1>1, <1>2
<1>4. ASSUME NEW i \in 1..Len(s) + 1 - n
      PROVE  SubSeq(s, n, Len(s))[i] = s[Len(s) - (Len(s) + 1 - n) + i]
  <2>1. i \in 1..Len(s) - n + 1 /\ n + i - 1 = Len(s) - (Len(s) + 1 - n) + i
    BY <1>1
  <2> QED BY <1>2, <2>1
<1>5. Len(s) + 1 - n <= Len(s)
  BY <1>1
<1> QED BY <1>2, <1>3, <1>4, <1>5 DEF Ends

(* Latest takes the last n, or all.                                        *)
LEMMA LatestTakes ==
  ASSUME NEW S, NEW s \in Seq(S), NEW n \in Nat
  PROVE  /\ Latest(s, n) \in Seq(S)
         /\ Len(Latest(s, n)) = IF Len(s) > n THEN n ELSE Len(s)
         /\ Ends(Latest(s, n), s)
<1> DEFINE from == IF Len(s) > n THEN Len(s) - n + 1 ELSE 1
<1>1. Len(s) \in Nat
  BY LenProperties
<1>2. from \in 1..Len(s) + 1 /\ Len(s) + 1 - from = IF Len(s) > n THEN n ELSE Len(s)
  BY <1>1
<1>3. Latest(s, n) = SubSeq(s, from, Len(s))
  BY DEF Latest
<1> HIDE DEF from
<1> QED BY <1>2, <1>3, CutIsEnd

(* An end of an end is an end.                                             *)
LEMMA EndOfEnd ==
  ASSUME NEW S, NEW s \in Seq(S), NEW t \in Seq(S), NEW u \in Seq(S),
         Ends(s, t), Ends(t, u)
  PROVE  Ends(s, u)
<1>1. Len(s) \in Nat /\ Len(t) \in Nat /\ Len(u) \in Nat
  OBVIOUS
<1>2. Len(s) <= Len(u)
  BY <1>1 DEF Ends
<1>3. ASSUME NEW i \in 1..Len(s)
      PROVE  s[i] = u[Len(u) - Len(s) + i]
  <2>1. s[i] = t[Len(t) - Len(s) + i]
    BY DEF Ends
  <2>2. Len(t) - Len(s) + i \in 1..Len(t)
    BY <1>1 DEF Ends
  <2>3. t[Len(t) - Len(s) + i] = u[Len(u) - Len(t) + (Len(t) - Len(s) + i)]
    BY <2>2 DEF Ends
  <2> QED BY <1>1, <2>1, <2>3
<1> QED BY <1>2, <1>3 DEF Ends

(* What is added to both stays at the end of both.                         *)
LEMMA EndsGrow ==
  ASSUME NEW S, NEW s \in Seq(S), NEW t \in Seq(S), NEW u \in Seq(S),
         Ends(s, t)
  PROVE  Ends(s \o u, t \o u)
<1>1. Len(s) \in Nat /\ Len(t) \in Nat /\ Len(u) \in Nat
  OBVIOUS
<1>2. Len(s \o u) <= Len(t \o u)
  BY <1>1 DEF Ends
<1>3. ASSUME NEW i \in 1..Len(s \o u)
      PROVE  (s \o u)[i] = (t \o u)[Len(t \o u) - Len(s \o u) + i]
  <2> DEFINE k == Len(t) - Len(s) + i
  <2>1. /\ Len(s \o u) = Len(s) + Len(u) /\ Len(t \o u) = Len(t) + Len(u)
        /\ (s \o u)[i] = IF i <= Len(s) THEN s[i] ELSE u[i - Len(s)]
    BY ConcatProperties
  <2>2. k \in 1..Len(t) + Len(u) /\ k = Len(t \o u) - Len(s \o u) + i
    BY <1>1, <2>1 DEF Ends
  <2>3. (t \o u)[k] = IF k <= Len(t) THEN t[k] ELSE u[k - Len(t)]
    BY <2>2, ConcatProperties
  <2>4. (k <= Len(t) <=> i <= Len(s)) /\ k - Len(t) = i - Len(s)
    BY <1>1, <2>1
  <2>5. i <= Len(s) => s[i] = t[k]
    BY <1>1 DEF Ends
  <2> QED BY <2>1, <2>2, <2>3, <2>4, <2>5
<1> QED BY <1>2, <1>3 DEF Ends

LEMMA EndIsLatest ==
  ASSUME NEW S, NEW s \in Seq(S), NEW t \in Seq(S), Ends(s, t)
  PROVE  s = Latest(t, Len(s))
<1>1. Len(s) \in Nat /\ Len(t) \in Nat /\ Len(s) <= Len(t)
  BY DEF Ends
<1>2. /\ Latest(t, Len(s)) \in Seq(S)
      /\ Len(Latest(t, Len(s))) = Len(s)
      /\ Ends(Latest(t, Len(s)), t)
  BY <1>1, LatestTakes
<1>3. \A i \in 1..Len(s) : s[i] = Latest(t, Len(s))[i]
  BY <1>1, <1>2 DEF Ends
<1> QED BY <1>2, <1>3, SeqEqual

-----------------------------------------------------------------------------
(* The gate.                                                               *)

Heard == raw \in Seq(BOOLEAN) /\ taken \in Seq(BOOLEAN)

Said == sent \in Seq(Nat) /\ preroll \in Seq(Nat)

(* The loud frame whose hold ends last decides how long the gate stays     *)
(* open.                                                                   *)
GateOK ==
  /\ hold \in Nat
  /\ \A j \in 1..Len(taken) : taken[j] => j + HoldFrames <= Len(taken) + hold
  /\ active => \E j \in 1..Len(taken) :
                 taken[j] /\ j + HoldFrames = Len(taken) + hold
  /\ ~active => \A j \in 1..Len(taken) : taken[j] => j + HoldFrames < Len(taken)

(* How far the frames are decided: the pre-roll holds the ones after that. *)
Decided == Len(taken) - Len(preroll)

PrerollOK ==
  /\ Len(preroll) <= Len(taken) /\ Len(preroll) <= PrerollFrames
  /\ \A i \in 1..Len(preroll) : preroll[i] = Decided + i
  /\ active => Len(preroll) = 0

SentOK ==
  /\ \A i \in 1..Len(sent) : sent[i] \in 1..Decided
  /\ \A i, j \in 1..Len(sent) : i < j => sent[i] < sent[j]
  /\ \A k \in 1..Len(taken) : (\E i \in 1..Len(sent) : sent[i] = k) <=> k \in Spoken

(* A pre-roll that is not full begins where an utterance ended, and that   *)
(* utterance leaves nothing unsaid since one of its loud frames.           *)
RunOK ==
  active \/ Len(preroll) < PrerollFrames =>
    \/ Decided = 0
    \/ \E j \in 1..Decided : taken[j] /\ \A k \in j..Decided : k \in Spoken

GateInv == Heard /\ Said /\ GateOK /\ PrerollOK /\ SentOK /\ RunOK

(* The first of one queue goes to the end of another.                      *)
LEMMA HandedOn ==
  ASSUME NEW S, NEW from \in Seq(S), NEW to \in Seq(S), from # << >>
  PROVE  /\ from[1] \in S /\ Tail(from) \in Seq(S)
         /\ Append(to, from[1]) \in Seq(S)
         /\ Len(Append(to, from[1])) = Len(to) + 1
         /\ \A i \in 1..Len(to) : Append(to, from[1])[i] = to[i]
         /\ Append(to, from[1])[Len(to) + 1] = from[1]
<1>1. from[1] \in S /\ Tail(from) \in Seq(S)
  OBVIOUS
<1> QED BY <1>1, AppendProperties

LEMMA TakenGrows ==
  ASSUME Heard, Encode
  PROVE  /\ Len(taken) \in Nat /\ Len(taken') = Len(taken) + 1
         /\ \A i \in 1..Len(taken) : taken'[i] = taken[i]
         /\ taken'[Len(taken) + 1] = raw[1]
         /\ DOMAIN taken = 1..Len(taken)
         /\ DOMAIN taken' = 1..Len(taken) + 1
         /\ Heard'
<1>1. raw # << >> /\ raw' = Tail(raw) /\ taken' = Append(taken, raw[1])
  BY DEF Encode
<1>2. Tail(raw) \in Seq(BOOLEAN)
  BY <1>1, HandedOn, Zenon DEF Heard
<1>3. /\ Append(taken, raw[1]) \in Seq(BOOLEAN)
      /\ Len(Append(taken, raw[1])) = Len(taken) + 1
      /\ \A i \in 1..Len(taken) : Append(taken, raw[1])[i] = taken[i]
      /\ Append(taken, raw[1])[Len(taken) + 1] = raw[1]
  <2> DEFINE P(S) == /\ Append(taken, raw[1]) \in Seq(S)
                     /\ Len(Append(taken, raw[1])) = Len(taken) + 1
                     /\ \A i \in 1..Len(taken) : Append(taken, raw[1])[i] = taken[i]
                     /\ Append(taken, raw[1])[Len(taken) + 1] = raw[1]
  <2>1. \A S : raw \in Seq(S) /\ taken \in Seq(S) => P(S)
    BY <1>1, HandedOn
  <2>2. P(BOOLEAN)
    BY <2>1, Zenon DEF Heard
  <2> QED BY <2>2
<1>4. /\ Len(taken) \in Nat /\ DOMAIN taken = 1..Len(taken)
      /\ DOMAIN Append(taken, raw[1]) = 1..Len(Append(taken, raw[1]))
  BY <1>3, LenProperties, Zenon DEF Heard
<1> QED BY <1>1, <1>2, <1>3, <1>4, Zenon DEF Heard

(* What a frame adds to what should be heard: itself while the gate is     *)
(* held open, and if it is loud the frames just before it.                 *)
LEMMA SpokenGrows ==
  ASSUME Heard, Encode, NEW k \in 1..Len(taken) + 1
  PROVE  k \in Spoken' <=>
           \/ k \in 1..Len(taken) /\ k \in Spoken
           \/ raw[1] /\ Len(taken) + 1 <= k + PrerollFrames
           \/ /\ k = Len(taken) + 1
              /\ \E j \in 1..Len(taken) : taken[j] /\ k <= j + HoldFrames
<1> DEFINE n == Len(taken)
<1>1. /\ n \in Nat /\ PrerollFrames \in Nat /\ HoldFrames \in Nat
      /\ \A i \in 1..n : taken'[i] = taken[i]
      /\ taken'[n + 1] = raw[1]
      /\ DOMAIN taken = 1..n /\ DOMAIN taken' = 1..n + 1
  BY TakenGrows, VoiceAssumption
<1>2. k \in Spoken' <=>
        \E j \in 1..n + 1 : taken'[j] /\ j <= k + PrerollFrames /\ k <= j + HoldFrames
  BY <1>1 DEF Spoken
<1>3. k \in 1..n => (k \in Spoken <=>
        \E j \in 1..n : taken[j] /\ j <= k + PrerollFrames /\ k <= j + HoldFrames)
  BY <1>1 DEF Spoken
<1> HIDE DEF n
<1> QED BY <1>1, <1>2, <1>3 DEF n


(* The gate passes a frame exactly when it is loud or held open.           *)
LEMMA GatePasses ==
  ASSUME Heard, GateOK, Encode
  PROVE  /\ GateOK'
         /\ active' <=>
              raw[1] \/ \E j \in 1..Len(taken) :
                          taken[j] /\ Len(taken) + 1 <= j + HoldFrames
         /\ active' /\ ~active => raw[1]
<1> DEFINE n == Len(taken)
<1>1. /\ n \in Nat /\ HoldFrames \in Nat /\ hold \in Nat
      /\ Len(taken') = n + 1
      /\ \A i \in 1..n : taken'[i] = taken[i]
      /\ taken'[n + 1] = raw[1]
  BY TakenGrows, VoiceAssumption DEF GateOK
<1>2. /\ hold' = IF raw[1] THEN HoldFrames ELSE IF hold > 0 THEN hold - 1 ELSE hold
      /\ active' <=> (raw[1] \/ (hold > 0 /\ active))
  BY DEF Encode, Push, Holds
<1>3. /\ \A j \in 1..n : taken[j] => j + HoldFrames <= n + hold
      /\ active => \E j \in 1..n : taken[j] /\ j + HoldFrames = n + hold
      /\ ~active => \A j \in 1..n : taken[j] => j + HoldFrames < n
  BY DEF GateOK
<1> HIDE DEF n
<1>4. hold > 0 /\ active <=> \E j \in 1..n : taken[j] /\ n + 1 <= j + HoldFrames
  BY <1>1, <1>3
<1>5. CASE raw[1]
  <2>1. hold' = HoldFrames /\ active' /\ n + 1 \in 1..n + 1
    BY <1>1, <1>2, <1>5
  <2>2. \A j \in 1..n + 1 : taken'[j] => j + HoldFrames <= n + 1 + hold'
    BY <1>1, <2>1
  <2>3. \E j \in 1..n + 1 : taken'[j] /\ j + HoldFrames = n + 1 + hold'
    BY <1>1, <1>5, <2>1
  <2>4. GateOK'
    BY <1>1, <2>1, <2>2, <2>3 DEF GateOK
  <2> QED BY <1>5, <2>1, <2>4 DEF n
<1>6. CASE ~raw[1] /\ hold > 0
  <2>1. hold' = hold - 1 /\ (active' <=> active) /\ hold' \in Nat
    BY <1>1, <1>2, <1>6
  <2>2. \A j \in 1..n + 1 : taken'[j] => j \in 1..n /\ taken[j]
    BY <1>1, <1>6
  <2>3. \A j \in 1..n + 1 : taken'[j] => j + HoldFrames <= n + 1 + hold'
    BY <1>1, <1>3, <2>1, <2>2
  <2>4. active' => \E j \in 1..n + 1 : taken'[j] /\ j + HoldFrames = n + 1 + hold'
    BY <1>1, <1>3, <2>1
  <2>5. ~active' => \A j \in 1..n + 1 : taken'[j] => j + HoldFrames < n + 1
    BY <1>1, <1>3, <2>1, <2>2
  <2>6. GateOK'
    BY <1>1, <2>1, <2>3, <2>4, <2>5 DEF GateOK
  <2> QED BY <1>2, <1>4, <1>6, <2>6 DEF n
<1>7. CASE ~raw[1] /\ ~(hold > 0)
  <2>1. hold' = 0 /\ hold = 0 /\ ~active'
    BY <1>1, <1>2, <1>7
  <2>2. \A j \in 1..n + 1 : taken'[j] => j \in 1..n /\ taken[j]
    BY <1>1, <1>7
  <2>3. \A j \in 1..n + 1 : taken'[j] => j + HoldFrames < n + 1
    BY <1>1, <1>3, <2>1, <2>2
  <2>4. GateOK'
    BY <1>1, <2>1, <2>3 DEF GateOK
  <2> QED BY <1>2, <1>4, <1>7, <2>1, <2>4 DEF n
<1> QED BY <1>5, <1>6, <1>7

(* A frame the gate does not pass goes to the pre-roll.                    *)
LEMMA SilenceIsKept ==
  ASSUME GateInv, Encode, ~active'
  PROVE  Said' /\ PrerollOK' /\ SentOK' /\ RunOK'
<1> DEFINE n == Len(taken)
           q == Len(preroll)
           more == Append(preroll, n + 1)
<1>1. /\ n \in Nat /\ Len(taken') = n + 1 /\ PrerollFrames \in Nat \ {0}
      /\ \A i \in 1..n : taken'[i] = taken[i]
  BY TakenGrows, VoiceAssumption DEF GateInv
<1>2. /\ ~raw[1]
      /\ ~\E j \in 1..n : taken[j] /\ n + 1 <= j + HoldFrames
  BY GatePasses DEF GateInv
<1>3. \A k \in 1..n + 1 : k \in Spoken' <=> k \in 1..n /\ k \in Spoken
  BY <1>1, <1>2, SpokenGrows DEF GateInv
<1>4. preroll' = Latest(more, PrerollFrames) /\ sent' = sent
  BY DEF Encode, Step
<1>5. /\ q \in Nat /\ q <= n /\ q <= PrerollFrames /\ Decided = n - q
      /\ preroll \in Seq(Nat) /\ \A i \in 1..q : preroll[i] = n - q + i
      /\ active => q = 0
  BY LenProperties DEF GateInv, Said, PrerollOK, Decided
<1>6. /\ more \in Seq(Nat) /\ Len(more) = q + 1
      /\ \A i \in 1..q + 1 : more[i] = n - q + i
  <2>1. /\ more \in Seq(Nat) /\ Len(more) = q + 1
        /\ \A i \in 1..q : more[i] = preroll[i]
        /\ more[q + 1] = n + 1
    <3>1. n + 1 \in Nat
      BY <1>1
    <3>2. preroll \in Seq(Nat)
      BY <1>5
    <3> QED BY <3>1, <3>2, AppendProperties
  <2>2. ASSUME NEW i \in 1..q + 1 PROVE more[i] = n - q + i
    <3>1. CASE i = q + 1
      BY <1>1, <1>5, <2>1, <3>1
    <3>2. CASE i # q + 1
      <4>1. i \in 1..q
        BY <1>5, <3>2
      <4> QED BY <1>5, <2>1, <4>1
    <3> QED BY <3>1, <3>2
  <2> QED BY <2>1, <2>2
<1> HIDE DEF more, n, q
<1>7. /\ preroll' \in Seq(Nat)
      /\ Len(preroll') = IF q + 1 > PrerollFrames THEN PrerollFrames ELSE q + 1
      /\ \A i \in 1..Len(preroll') : preroll'[i] = more[Len(more) - Len(preroll') + i]
  <2>1. PrerollFrames \in Nat /\ Len(more) = q + 1 /\ more \in Seq(Nat)
    BY <1>1, <1>6
  <2>2. /\ preroll' \in Seq(Nat)
        /\ Len(preroll') = IF Len(more) > PrerollFrames THEN PrerollFrames ELSE Len(more)
        /\ Ends(preroll', more)
    BY <1>4, <2>1, LatestTakes
  <2>3. \A i \in 1..Len(preroll') : preroll'[i] = more[Len(more) - Len(preroll') + i]
    BY <2>2 DEF Ends
  <2>4. Len(preroll') = IF q + 1 > PrerollFrames THEN PrerollFrames ELSE q + 1
    BY <2>1, <2>2, Zenon
  <2> QED BY <2>2, <2>3, <2>4
<1> DEFINE r == Len(preroll')
<1>8. /\ r \in 1..q + 1 /\ r <= PrerollFrames /\ Decided' = n + 1 - r
      /\ Decided' >= Decided /\ Decided' \in Nat /\ Decided \in Nat
      /\ r < PrerollFrames => Decided' = Decided /\ q < PrerollFrames
  <2>1. r = IF q + 1 > PrerollFrames THEN PrerollFrames ELSE q + 1
    BY <1>7
  <2>2. Decided' = n + 1 - r
    BY <1>1 DEF Decided
  <2> HIDE DEF r
  <2> QED BY <1>1, <1>5, <2>1, <2>2
<1>9. \A i \in 1..r : preroll'[i] = Decided' + i
  <2> SUFFICES ASSUME NEW i \in 1..r PROVE preroll'[i] = Decided' + i
    OBVIOUS
  <2> HIDE DEF r
  <2> DEFINE at == Len(more) - r + i
  <2>1. at \in 1..q + 1 /\ at = q + 1 - r + i
    BY <1>5, <1>6, <1>8
  <2>2. preroll'[i] = more[at]
    BY <1>7 DEF r
  <2> HIDE DEF at
  <2>3. more[at] = n - q + at
    BY <1>6, <2>1
  <2>4. n \in Nat /\ q \in Nat /\ r \in Nat /\ i \in Nat
    BY <1>1, <1>5, <1>8
  <2>5. Decided' = n + 1 - r
    BY <1>8
  <2>6. n - q + (q + 1 - r + i) = n + 1 - r + i
    BY <2>4
  <2>7. at = q + 1 - r + i
    BY <2>1
  <2> QED BY <2>2, <2>3, <2>5, <2>6, <2>7, Zenon
<1> HIDE DEF r
<1>10. Said'
  BY <1>4, <1>7 DEF GateInv, Said
<1>11. PrerollOK'
  BY <1>1, <1>5, <1>8, <1>9 DEF PrerollOK, r
<1>12. SentOK'
  <2>1. /\ \A i \in 1..Len(sent) : sent[i] \in 1..Decided
        /\ \A i, j \in 1..Len(sent) : i < j => sent[i] < sent[j]
        /\ \A k \in 1..n : (\E i \in 1..Len(sent) : sent[i] = k) <=> k \in Spoken
    BY DEF GateInv, SentOK, n
  <2>2. \A i \in 1..Len(sent) : sent[i] \in 1..Decided' /\ sent[i] # n + 1
    BY <1>1, <1>5, <1>8, <2>1
  <2>3. \A k \in 1..n + 1 : (\E i \in 1..Len(sent) : sent[i] = k) <=> k \in Spoken'
    BY <1>1, <1>3, <2>1, <2>2
  <2> QED BY <1>1, <1>4, <2>1, <2>2, <2>3 DEF SentOK
<1>13. RunOK'
  <2> SUFFICES ASSUME r < PrerollFrames, Decided' # 0
               PROVE  \E j \in 1..Decided' : taken'[j] /\ \A k \in j..Decided' : k \in Spoken'
    BY DEF RunOK, r
  <2>1. PICK j \in 1..Decided : taken[j] /\ \A k \in j..Decided : k \in Spoken
    BY <1>5, <1>8 DEF GateInv, RunOK, q
  <2>2. j \in 1..n /\ \A k \in j..Decided : k \in 1..n
    BY <1>1, <1>5, <1>8
  <2> QED BY <1>1, <1>3, <1>8, <2>1, <2>2
<1> QED BY <1>10, <1>11, <1>12, <1>13

(* When the gate passes a frame, what should be heard grows by just what   *)
(* was not decided yet.                                                    *)
LEMMA SpeechIsSpoken ==
  ASSUME GateInv, Encode, active', NEW k \in 1..Len(taken) + 1
  PROVE  k \in Spoken' <=> (k \in 1..Len(taken) /\ k \in Spoken) \/ k > Decided
<1> DEFINE n == Len(taken)
           q == Len(preroll)
<1>1. /\ n \in Nat /\ q \in Nat /\ q <= n /\ q <= PrerollFrames
      /\ PrerollFrames \in Nat \ {0} /\ HoldFrames \in Nat
      /\ Decided = n - q /\ (active => q = 0) /\ DOMAIN taken = 1..n
  BY TakenGrows, LenProperties, VoiceAssumption DEF GateInv, Said, PrerollOK, Decided
<1>2. raw[1] \/ \E j \in 1..n : taken[j] /\ n + 1 <= j + HoldFrames
  BY GatePasses DEF GateInv
<1>3. ~active => raw[1]
  BY GatePasses DEF GateInv
<1>4. k \in Spoken' <=>
        \/ k \in 1..n /\ k \in Spoken
        \/ raw[1] /\ n + 1 <= k + PrerollFrames
        \/ k = n + 1 /\ \E j \in 1..n : taken[j] /\ k <= j + HoldFrames
  BY SpokenGrows DEF GateInv
<1> HIDE DEF n, q
<1>5. CASE k > Decided
  <2>1. CASE k = n + 1
    BY <1>1, <1>2, <1>4, <1>5, <2>1 DEF n
  <2>2. CASE k # n + 1
    <3>1. q # 0 /\ n + 1 <= k + PrerollFrames
      BY <1>1, <1>5, <2>2 DEF n
    <3> QED BY <1>1, <1>3, <1>4, <1>5, <3>1
  <2> QED BY <2>1, <2>2
<1>6. CASE ~(k > Decided)
  <2>1. k \in 1..n /\ k # n + 1
    BY <1>1, <1>6 DEF n
  <2>2. ASSUME raw[1], n + 1 <= k + PrerollFrames
        PROVE  k \in Spoken
    <3>1. (active \/ q < PrerollFrames) /\ Decided # 0
      BY <1>1, <1>6, <2>1, <2>2
    <3>2. PICK j \in 1..Decided : taken[j] /\ \A i \in j..Decided : i \in Spoken
      BY <3>1 DEF GateInv, RunOK, q
    <3>3. CASE k >= j
      BY <1>1, <1>6, <2>1, <3>2, <3>3
    <3>4. CASE ~(k >= j)
      <4>1. j \in DOMAIN taken /\ j <= k + PrerollFrames /\ k <= j + HoldFrames
        BY <1>1, <2>1, <2>2, <3>4
      <4>2. k \in DOMAIN taken
        BY <1>1, <2>1
      <4> QED BY <3>2, <4>1, <4>2 DEF Spoken
    <3> QED BY <3>3, <3>4
  <2> QED BY <1>4, <1>6, <2>1, <2>2 DEF n
<1> QED BY <1>5, <1>6

(* A frame the gate passes goes out, after the pre-roll if there is one.   *)
LEMMA SpeechIsSent ==
  ASSUME GateInv, Encode, active'
  PROVE  Said' /\ PrerollOK' /\ SentOK' /\ RunOK'
<1> DEFINE n == Len(taken)
           q == Len(preroll)
           frames == Append(preroll, n + 1)
           l == Len(sent)
<1>1. /\ n \in Nat /\ Len(taken') = n + 1 /\ l \in Nat /\ q \in Nat
      /\ \A i \in 1..n : taken'[i] = taken[i]
      /\ taken'[n + 1] = raw[1]
      /\ preroll \in Seq(Nat) /\ sent \in Seq(Nat)
  BY TakenGrows, LenProperties DEF GateInv, Said
<1>2. /\ q <= n /\ Decided = n - q /\ (active => q = 0)
      /\ \A i \in 1..q : preroll[i] = n - q + i
  BY DEF GateInv, PrerollOK, Decided
<1>3. /\ frames \in Seq(Nat) /\ Len(frames) = q + 1
      /\ \A i \in 1..q + 1 : frames[i] = n - q + i
  <2>1. /\ frames \in Seq(Nat) /\ Len(frames) = q + 1
        /\ \A i \in 1..q : frames[i] = preroll[i]
        /\ frames[q + 1] = n + 1
    <3>1. n + 1 \in Nat /\ preroll \in Seq(Nat)
      BY <1>1
    <3> QED BY <3>1, AppendProperties
  <2>2. ASSUME NEW i \in 1..q + 1 PROVE frames[i] = n - q + i
    <3>1. CASE i = q + 1
      BY <1>1, <2>1, <3>1
    <3>2. CASE i # q + 1
      <4>1. i \in 1..q
        BY <1>1, <3>2
      <4> QED BY <1>2, <2>1, <4>1
    <3> QED BY <3>1, <3>2
  <2> QED BY <2>1, <2>2
<1>4. sent' = sent \o frames /\ preroll' = << >>
  <2>1. CASE ~active
    BY <2>1 DEF Encode, Step, Utter, Out
  <2>2. CASE active
    <3>1. preroll = << >>
      BY <1>1, <1>2, <2>2, EmptySeq
    <3>2. sent' = sent \o <<n + 1>> /\ preroll' = preroll
      BY <2>2 DEF Encode, Step, Utter, Out
    <3>3. frames = <<n + 1>>
      BY <3>1
    <3> QED BY <3>1, <3>2, <3>3
  <2> QED BY <2>1, <2>2
<1> HIDE DEF frames
<1>5. /\ sent' \in Seq(Nat) /\ Len(sent') = l + (q + 1)
      /\ \A i \in 1..l + (q + 1) : sent'[i] = IF i <= l THEN sent[i] ELSE frames[i - l]
  <2>1. /\ sent' \in Seq(Nat) /\ Len(sent') = l + Len(frames)
        /\ \A i \in 1..l + Len(frames) :
             sent'[i] = IF i <= l THEN sent[i] ELSE frames[i - l]
    BY <1>1, <1>3, <1>4, ConcatProperties
  <2>2. ASSUME NEW i \in 1..l + (q + 1)
        PROVE  sent'[i] = IF i <= l THEN sent[i] ELSE frames[i - l]
    <3>1. i \in 1..l + Len(frames)
      BY <1>3
    <3> QED BY <2>1, <3>1
  <2> QED BY <1>3, <2>1, <2>2
<1>6. /\ \A i \in 1..l : sent'[i] = sent[i]
      /\ \A i \in 1..q + 1 : sent'[l + i] = Decided + i
  <2>1. ASSUME NEW i \in 1..l PROVE sent'[i] = sent[i]
    BY <1>1, <1>5
  <2>2. ASSUME NEW i \in 1..q + 1 PROVE sent'[l + i] = Decided + i
    <3>1. l + i \in 1..l + (q + 1) /\ ~(l + i <= l) /\ (l + i) - l = i
      BY <1>1
    <3>2. sent'[l + i] = frames[(l + i) - l]
      BY <1>5, <3>1
    <3> QED BY <1>2, <1>3, <3>1, <3>2
  <2> QED BY <2>1, <2>2
<1>7. Len(preroll') = 0 /\ Decided' = n + 1
  BY <1>1, <1>4 DEF Decided
<1>8. /\ \A i \in 1..l : sent[i] \in 1..Decided
      /\ \A i, j \in 1..l : i < j => sent[i] < sent[j]
      /\ \A k \in 1..n : (\E i \in 1..l : sent[i] = k) <=> k \in Spoken
  BY DEF GateInv, SentOK
<1>9. \A k \in 1..n + 1 : k \in Spoken' <=> (k \in 1..n /\ k \in Spoken) \/ k > Decided
  BY SpeechIsSpoken
<1> HIDE DEF n, q, l
<1>10. Said'
  BY <1>4, <1>5 DEF Said
<1>11. PrerollOK'
  <2>1. Len(taken') >= 0 /\ PrerollFrames >= 0
    BY <1>1, VoiceAssumption
  <2> QED BY <1>7, <2>1 DEF PrerollOK
<1>12. SentOK'
  <2> DEFINE m == l + (q + 1)
  <2>1. ASSUME NEW i \in 1..m
        PROVE  \/ i \in 1..l /\ sent'[i] = sent[i] /\ sent[i] \in 1..Decided
               \/ i > l /\ sent'[i] = Decided + (i - l) /\ i - l \in 1..q + 1
    <3>1. CASE i <= l
      BY <1>1, <1>6, <1>8, <3>1
    <3>2. CASE ~(i <= l)
      <4>1. i - l \in 1..q + 1 /\ l + (i - l) = i
        BY <1>1, <3>2
      <4>2. sent'[l + (i - l)] = Decided + (i - l)
        BY <1>6, <4>1
      <4> QED BY <1>1, <3>2, <4>1, <4>2
    <3> QED BY <3>1, <3>2
  <2>2. ASSUME NEW i \in 1..m PROVE sent'[i] \in 1..n + 1
    <3>1. CASE i \in 1..l /\ sent'[i] = sent[i] /\ sent[i] \in 1..Decided
      BY <1>1, <1>2, <3>1
    <3>2. CASE i > l /\ sent'[i] = Decided + (i - l) /\ i - l \in 1..q + 1
      BY <1>1, <1>2, <3>2
    <3> QED BY <2>1, <3>1, <3>2
  <2>3. ASSUME NEW i \in 1..m, NEW j \in 1..m, i < j
        PROVE  sent'[i] < sent'[j]
    <3>1. CASE j \in 1..l /\ sent'[j] = sent[j]
      <4>1. i \in 1..l /\ sent'[i] = sent[i]
        BY <1>1, <1>6, <2>3, <3>1
      <4> QED BY <1>8, <2>3, <3>1, <4>1
    <3>2. CASE j > l /\ sent'[j] = Decided + (j - l)
      <4>1. CASE i \in 1..l /\ sent'[i] = sent[i] /\ sent[i] \in 1..Decided
        BY <1>1, <1>2, <3>2, <4>1
      <4>2. CASE i > l /\ sent'[i] = Decided + (i - l)
        BY <1>1, <1>2, <2>3, <3>2, <4>2
      <4> QED BY <2>1, <4>1, <4>2
    <3> QED BY <2>1, <3>1, <3>2
  <2>4. ASSUME NEW k \in 1..n + 1
        PROVE  (\E i \in 1..m : sent'[i] = k) <=> k \in Spoken'
    <3>1. CASE k > Decided
      <4>1. k - Decided \in 1..q + 1 /\ Decided + (k - Decided) = k
        BY <1>1, <1>2, <3>1
      <4>2. sent'[l + (k - Decided)] = k
        BY <1>6, <4>1
      <4>3. l + (k - Decided) \in 1..m
        BY <1>1, <4>1
      <4> QED BY <1>9, <3>1, <4>2, <4>3
    <3>2. CASE ~(k > Decided)
      <4>1. k \in 1..n
        BY <1>1, <1>2, <3>2
      <4>2. \A i \in 1..m : sent'[i] = k => i \in 1..l /\ sent[i] = k
        BY <1>1, <1>2, <2>1, <3>2
      <4>3. \A i \in 1..l : i \in 1..m /\ sent'[i] = sent[i]
        BY <1>1, <1>6
      <4>4. (\E i \in 1..m : sent'[i] = k) <=> k \in Spoken
        BY <1>8, <4>1, <4>2, <4>3
      <4> QED BY <1>9, <3>2, <4>1, <4>4
    <3> QED BY <3>1, <3>2
  <2> HIDE DEF m
  <2>5. Len(sent') = m /\ Len(taken') = n + 1
    BY <1>1, <1>5 DEF m
  <2> QED BY <1>7, <2>2, <2>3, <2>4, <2>5 DEF SentOK
<1>13. RunOK'
  <2>1. \E j \in 1..n + 1 : taken'[j] /\ \A k \in j..n + 1 : k \in Spoken'
    <3>1. CASE ~active
      <4>1. raw[1] /\ n + 1 \in 1..n + 1
        BY <1>1, <3>1, GatePasses DEF GateInv
      <4>2. n + 1 \in Spoken'
        BY <1>1, <1>2, <1>9, <4>1
      <4>3. \A k \in n + 1..n + 1 : k = n + 1
        BY <1>1
      <4> QED BY <1>1, <4>1, <4>2, <4>3
    <3>2. CASE active
      <4>1. Decided = n /\ n # 0
        BY <1>1, <1>2, <3>2 DEF GateInv, GateOK, n
      <4>2. PICK j \in 1..Decided : taken[j] /\ \A k \in j..Decided : k \in Spoken
        BY <3>2, <4>1 DEF GateInv, RunOK
      <4>3. j \in 1..n + 1 /\ taken'[j]
        BY <1>1, <4>1, <4>2
      <4>4. ASSUME NEW k \in j..n + 1 PROVE k \in Spoken'
        <5>1. n \in Nat /\ j \in 1..n /\ Decided = n
          BY <1>1, <4>1, <4>2
        <5>2. k \in 1..n + 1 /\ (k \in j..n \/ k = n + 1)
          BY <5>1
        <5>3. CASE k \in j..n
          <6>1. k \in Spoken /\ k \in 1..n
            BY <4>2, <5>1, <5>3
          <6> QED BY <1>9, <5>2, <6>1
        <5>4. CASE k = n + 1
          BY <1>9, <5>1, <5>2, <5>4
        <5> QED BY <5>2, <5>3, <5>4
      <4> QED BY <4>3, <4>4
    <3> QED BY <3>1, <3>2
  <2> QED BY <1>7, <2>1 DEF RunOK
<1> QED BY <1>10, <1>11, <1>12, <1>13

LEMMA GateAtFirst == VoiceInit => GateInv
<1> SUFFICES ASSUME VoiceInit PROVE GateInv
  OBVIOUS
<1>1. Heard
  BY EmptySeq, Zenon DEF VoiceInit, Heard
<1>2. /\ Len(taken) = 0 /\ Len(preroll) = 0 /\ Len(sent) = 0
      /\ hold = 0 /\ ~active /\ PrerollFrames \in Nat
  BY VoiceAssumption DEF VoiceInit
<1>3. GateOK /\ PrerollOK /\ SentOK /\ RunOK
  BY <1>2 DEF GateOK, PrerollOK, SentOK, RunOK, Decided
<1> QED BY <1>1, <1>3 DEF VoiceInit, Said, GateInv

LEMMA GateIsKept == GateInv /\ [VoiceNext]_voiceVars => GateInv'
<1> SUFFICES ASSUME GateInv, [VoiceNext]_voiceVars PROVE GateInv'
  OBVIOUS
<1>1. CASE Encode
  <2>1. Heard' /\ GateOK'
    BY <1>1, TakenGrows, GatePasses DEF GateInv
  <2>2. Said' /\ PrerollOK' /\ SentOK' /\ RunOK'
    BY <1>1, SilenceIsKept, SpeechIsSent
  <2> QED BY <2>1, <2>2 DEF GateInv
<1>2. CASE UNCHANGED <<taken, hold, active, preroll, sent>> /\ Heard'
  BY <1>2 DEF GateInv, Said, GateOK, PrerollOK, SentOK, RunOK, Decided, Spoken
<1>3. CASE Capture
  <2>1. \E loud \in BOOLEAN : raw' = raw \/ raw' = Append(raw, loud)
    BY <1>3, Zenon DEF Capture
  <2>2. taken' = taken
    BY <1>3 DEF Capture
  <2>3. \A S : raw \in Seq(S) /\ (\E loud \in S : raw' = raw \/ raw' = Append(raw, loud))
                 => raw' \in Seq(S)
    BY AppendProperties
  <2>4. Heard'
    BY <2>1, <2>2, <2>3, Zenon DEF GateInv, Heard
  <2> QED BY <1>2, <1>3, <2>4 DEF Capture
<1>4. CASE UNCHANGED <<raw, taken, hold, active, preroll, sent>>
  <2>1. Heard'
    BY <1>4, Zenon DEF GateInv, Heard
  <2> QED BY <1>2, <1>4, <2>1
<1>5. CASE SetGain \/ Pump \/ Callback \/ Pull \/ UNCHANGED voiceVars
           \/ \E frame \in flying : Deliver(frame) \/ LoseFrame(frame)
  BY <1>4, <1>5 DEF SetGain, Pump, Take, Callback, Pull, Deliver, LoseFrame, voiceVars, talker
<1> QED BY <1>1, <1>3, <1>5 DEF VoiceNext

(* "A hold plus a small pre-roll keep word tails and onsets intact": for   *)
(* every hold and pre-roll, what goes out is every utterance, whole, each  *)
(* frame once and in order (`Gate::push`, `encode_loop`).                  *)
THEOREM UtterancesStayWhole == VoiceSpec => []UtterancesAreWhole
<1>1. GateInv => UtterancesAreWhole
  <2> SUFFICES ASSUME GateInv PROVE UtterancesAreWhole
    OBVIOUS
  <2>1. /\ Len(taken) \in Nat /\ DOMAIN taken = 1..Len(taken)
        /\ Len(preroll) \in Nat /\ DOMAIN sent = 1..Len(sent)
    BY LenProperties DEF GateInv, Heard, Said
  <2>2. \A i \in 1..Len(sent) : sent[i] \in 1..Len(taken)
    BY <2>1 DEF GateInv, SentOK, Decided
  <2>3. Spoken \subseteq 1..Len(taken)
    BY <2>1 DEF Spoken
  <2>4. \A k \in 1..Len(taken) : (\E i \in 1..Len(sent) : sent[i] = k) <=> k \in Spoken
    BY DEF GateInv, SentOK
  <2>5. Range(sent) = Spoken
    BY <2>1, <2>2, <2>3, <2>4 DEF Range
  <2> QED BY <2>1, <2>5 DEF UtterancesAreWhole, GateInv, SentOK
<1> QED BY <1>1, GateAtFirst, GateIsKept, PTL DEF VoiceSpec

-----------------------------------------------------------------------------
(* The mix.                                                                *)

MixInv ==
  /\ flying \subseteq Nat
  /\ inbox \in Seq(Nat) /\ mix \in Seq(Nat) /\ came \in Seq(Nat)
  /\ Ends(mix, came) /\ Len(mix) <= QueueMax

(* Frames that come are put at the end, and what does not fit is the       *)
(* oldest.                                                                 *)
LEMMA FittedKeepsTheLatest ==
  ASSUME MixInv, NEW frames \in Seq(Nat)
  PROVE  /\ Fitted(mix \o frames) \in Seq(Nat)
         /\ Ends(Fitted(mix \o frames), came \o frames)
         /\ Len(Fitted(mix \o frames)) <= QueueMax
         /\ came \o frames \in Seq(Nat)
<1>1. /\ mix \o frames \in Seq(Nat) /\ came \o frames \in Seq(Nat)
      /\ QueueMax \in Nat
  BY VoiceAssumption DEF MixInv
<1>2. Ends(mix \o frames, came \o frames)
  BY EndsGrow DEF MixInv
<1>3. /\ Fitted(mix \o frames) \in Seq(Nat)
      /\ Len(Fitted(mix \o frames)) =
           IF Len(mix \o frames) > QueueMax THEN QueueMax ELSE Len(mix \o frames)
      /\ Ends(Fitted(mix \o frames), mix \o frames)
  BY <1>1, LatestTakes DEF Fitted
<1>4. Len(mix \o frames) \in Nat
  BY <1>1, LenProperties
<1>5. Len(Fitted(mix \o frames)) <= QueueMax
  BY <1>1, <1>3, <1>4
<1> QED BY <1>1, <1>2, <1>3, <1>5, EndOfEnd

LEMMA MixAtFirst == VoiceInit => MixInv
BY VoiceAssumption DEF VoiceInit, MixInv, Ends

LEMMA MixIsKept == GateInv /\ MixInv /\ [VoiceNext]_voiceVars => MixInv'
<1> SUFFICES ASSUME GateInv, MixInv, [VoiceNext]_voiceVars PROVE MixInv'
  OBVIOUS
<1>1. CASE Encode
  <2>1. /\ Append(preroll, Len(taken) + 1) \in Seq(Nat)
        /\ <<Len(taken) + 1>> \in Seq(Nat)
    BY <1>1, TakenGrows DEF GateInv, Said
  <2>2. \A s \in Seq(Nat) : Range(s) \subseteq Nat
    BY DEF Range
  <2>3. flying' \subseteq Nat
    BY <1>1, <2>1, <2>2 DEF Encode, Step, Utter, Out, MixInv
  <2> QED BY <1>1, <2>3 DEF Encode, listener, MixInv
<1>2. ASSUME NEW frame \in flying, Deliver(frame) \/ LoseFrame(frame)
      PROVE  MixInv'
  <2>1. frame \in Nat /\ Append(inbox, frame) \in Seq(Nat)
    BY <1>2 DEF MixInv
  <2> QED BY <1>2, <2>1 DEF Deliver, LoseFrame, listener, MixInv
<1>3. CASE Pump
  <2>1. /\ inbox[1] \in Nat /\ Tail(inbox) \in Seq(Nat) /\ <<inbox[1]>> \in Seq(Nat)
    BY <1>3 DEF Pump, Take, MixInv
  <2>2. /\ Append(mix, inbox[1]) = mix \o <<inbox[1]>>
        /\ Append(came, inbox[1]) = came \o <<inbox[1]>>
    BY <2>1, AppendIsConcat DEF MixInv
  <2>3. inbox' = Tail(inbox) /\ came' = came \o <<inbox[1]>>
        /\ mix' = Fitted(mix \o <<inbox[1]>>) /\ flying' = flying
    BY <1>3, <2>2 DEF Pump, Take
  <2> QED BY <2>1, <2>3, FittedKeepsTheLatest DEF MixInv
<1>4. CASE Callback
  <2>1. /\ mix # << >> /\ mix' = Tail(mix)
        /\ UNCHANGED <<flying, inbox, came>> /\ QueueMax \in Nat
    BY <1>4, VoiceAssumption DEF Callback
  <2>2. 2 \in 1..Len(mix) + 1 /\ Tail(mix) = SubSeq(mix, 2, Len(mix)) /\ Len(mix) \in Nat
    BY <2>1, TailIsSubSeq, EmptySeq DEF MixInv
  <2>3. /\ mix' \in Seq(Nat) /\ Len(mix') = Len(mix) + 1 - 2
        /\ Ends(mix', mix)
    BY <2>1, <2>2, CutIsEnd DEF MixInv
  <2>4. Ends(mix', came)
    BY <2>3, EndOfEnd DEF MixInv
  <2>5. Len(mix') <= QueueMax
    BY <2>1, <2>2, <2>3 DEF MixInv
  <2> QED BY <2>1, <2>3, <2>4, <2>5 DEF MixInv
<1>5. CASE Pull
  <2> DEFINE all == Fitted(mix \o inbox)
  <2>1. /\ inbox' = << >> /\ came' = came \o inbox /\ flying' = flying
        /\ QueueMax \in Nat
    BY <1>5, VoiceAssumption DEF Pull
  <2>2. /\ all \in Seq(Nat) /\ Ends(all, came \o inbox)
        /\ Len(all) <= QueueMax /\ came \o inbox \in Seq(Nat)
    BY FittedKeepsTheLatest DEF MixInv
  <2>3. PICK room \in 0..1 : mix' = SubSeq(all, 1 + room, Len(all))
    BY <1>5 DEF Pull
  <2> HIDE DEF all
  <2>4. CASE 1 + room \in 1..Len(all) + 1
    <3>1. /\ mix' \in Seq(Nat) /\ Len(mix') = Len(all) + 1 - (1 + room)
          /\ Ends(mix', all)
      BY <2>2, <2>3, <2>4, CutIsEnd
    <3>2. Len(mix') <= QueueMax
      BY <2>1, <2>2, <3>1, LenProperties
    <3>3. Ends(mix', came \o inbox)
      BY <2>2, <3>1, EndOfEnd
    <3> QED BY <2>1, <2>2, <3>1, <3>2, <3>3 DEF MixInv
  <2>5. CASE ~(1 + room \in 1..Len(all) + 1)
    <3>1. Len(all) = 0 /\ room = 1
      BY <2>2, <2>5, LenProperties
    <3>2. mix' = << >>
      BY <2>3, <3>1, SubSeqEmpty
    <3>3. Ends(<< >>, came \o inbox) /\ Len(<< >>) <= QueueMax
      BY <2>1, <2>2, LenProperties DEF Ends
    <3> QED BY <2>1, <2>2, <3>2, <3>3 DEF MixInv
  <2> QED BY <2>4, <2>5
<1>6. CASE Capture \/ SetGain \/ UNCHANGED voiceVars
  BY <1>6 DEF Capture, SetGain, voiceVars, talker, listener, MixInv
<1> QED BY <1>1, <1>2, <1>3, <1>4, <1>5, <1>6 DEF VoiceNext

(* A mix that is behind loses its oldest audio and nothing else, for every *)
(* length of the queues and either client (`Voice::pump`, `pull_voice`).   *)
THEOREM MixStaysTheLatest == VoiceSpec => []MixIsTheLatest
<1>1. MixInv => MixIsTheLatest
  BY EndIsLatest DEF MixInv, MixIsTheLatest
<1> QED BY <1>1, GateAtFirst, GateIsKept, MixAtFirst, MixIsKept, PTL DEF VoiceSpec

-----------------------------------------------------------------------------
(* Meadow. *)

(* Going through a list, one entry after the other.                        *)

Runs(g, S, step, s, l) ==
  /\ g \in [0..Len(l) -> S] /\ g[0] = s
  /\ \A i \in 1..Len(l) : g[i] = step[<<g[i - 1], l[i]>>]

\* A step for every entry makes a run over the list.
LEMMA RunExists ==
  ASSUME NEW S, NEW T, NEW step \in [S \X T -> S], NEW s \in S, NEW l \in Seq(T)
  PROVE  \E g : Runs(g, S, step, s, l)
<1> DEFINE run(g, n) ==
             g \in [0..n -> S] /\ g[0] = s /\ \A i \in 1..n : g[i] = step[<<g[i - 1], l[i]>>]
           bad == {n \in 0..Len(l) : ~\E g : run(g, n)}
<1>1. Len(l) \in Nat /\ \A i \in 1..Len(l) : l[i] \in T
  OBVIOUS
<1>2. ASSUME bad # {} PROVE FALSE
  <2>0. bad \in SUBSET Nat
    BY <1>1
  <2> HIDE DEF bad
  <2>1. PICK n \in bad : \A k \in bad : n <= k
    BY <1>2, <2>0, LeastNatural
  <2>2. n \in 0..Len(l) /\ n # 0
    <3>1. run([i \in 0..0 |-> s], 0)
      OBVIOUS
    <3> QED BY <3>1 DEF bad
  <2>3. PICK k \in 0..Len(l) - 1 : n = k + 1
    BY <1>1, <2>2
  <2>4. k \notin bad /\ k \in 0..Len(l)
    BY <1>1, <2>1, <2>3
  <2>5. PICK g : run(g, k)
    BY <2>4 DEF bad
  <2> DEFINE h == [i \in 0..n |-> IF i = n THEN step[<<g[k], l[n]>>] ELSE g[i]]
  <2>6. step[<<g[k], l[n]>>] \in S /\ g \in [0..k -> S]
    BY <2>3, <2>5, <1>1
  <2>7. h \in [0..n -> S]
    BY <2>6, <2>3
  <2>8. \A i \in 1..n : h[i] = step[<<h[i - 1], l[i]>>]
    <3> SUFFICES ASSUME NEW i \in 1..n PROVE h[i] = step[<<h[i - 1], l[i]>>]
      OBVIOUS
    <3>1. h[i - 1] = g[i - 1]
      BY <2>3
    <3>2. CASE i = n
      <4>1. h[i] = step[<<g[k], l[n]>>] /\ i - 1 = k
        BY <2>3, <3>2
      <4> HIDE DEF h
      <4> QED BY <3>1, <3>2, <4>1
    <3>3. CASE i # n
      <4>1. i \in 1..k
        BY <2>3, <3>3
      <4> QED BY <2>3, <2>5, <3>1, <3>3, <4>1
    <3> QED BY <3>2, <3>3
  <2>9. h[0] = s
    BY <2>3, <2>5
  <2>10. run(h, n)
    BY <2>7, <2>8, <2>9
  <2> QED BY <2>1, <2>10 DEF bad
<1>3. \E g : run(g, Len(l))
  BY <1>1, <1>2
<1> QED BY <1>3 DEF Runs

\* What every step keeps, the run keeps.
LEMMA RunStays ==
  ASSUME NEW S, NEW f, NEW n \in Nat, f[0] \in S, \A i \in 1..n : f[i - 1] \in S => f[i] \in S
  PROVE  f[n] \in S
<1> DEFINE bad == {k \in 0..n : f[k] \notin S}
<1>1. ASSUME bad # {} PROVE FALSE
  <2>0. bad \in SUBSET Nat
    OBVIOUS
  <2> HIDE DEF bad
  <2>1. PICK k \in bad : \A j \in bad : k <= j
    BY <1>1, <2>0, LeastNatural
  <2> USE DEF bad
  <2>2. k # 0
    OBVIOUS
  <2>3. k - 1 \in 0..n /\ k - 1 \notin bad /\ k \in 1..n
    BY <2>1, <2>2
  <2>4. f[k - 1] \in S
    BY <2>3
  <2>5. f[k] \in S
    BY <2>3, <2>4
  <2> QED BY <2>1, <2>5
<1> QED BY <1>1

-----------------------------------------------------------------------------
(* The field of devices.                                                   *)

SoundGround ==
  {g \in GroundType : IsInjective(g.mines) /\ IsInjective(g.traps) /\ g.moved \cap Laid = {}}

LEMMA LaidAreDevices ==
  /\ Laid \subseteq Device
  /\ \A d \in Device : d.kind \in {"mine", "trap"} /\ d.cell \in Cells
  /\ \A kind \in {"mine", "trap"}, c \in Cells : [kind |-> kind, cell |-> c] \in Device
BY PlacesAssumption DEF Device

LEMMA AppendedOnce ==
  ASSUME NEW S, NEW q \in Seq(S), NEW d \in S, IsInjective(q), d \notin ToSet(q)
  PROVE  Append(q, d) \in Seq(S) /\ IsInjective(Append(q, d))
<1>1. \A i \in DOMAIN q : q[i] # d
  BY DEF ToSet
<1>2. Append(q, d) \in Seq(S)
  OBVIOUS
<1>3. \A i, j \in DOMAIN Append(q, d) : Append(q, d)[i] = Append(q, d)[j] => i = j
  BY <1>1, SMT DEF IsInjective
<1> QED BY <1>2, <1>3 DEF IsInjective

LEMMA Relocates ==
  ASSUME NEW g \in SoundGround, NEW d \in Device
  PROVE  Relocated(g, d) \in SoundGround /\ Relocated(g, d).eaten = g.eaten
<1> DEFINE fits == {i \in DOMAIN Ring[d] : Vacant(g, d.kind, Ring[d][i])}
           e == [kind |-> d.kind, cell |-> Ring[d][Min(fits)]]
<1>0. Ring[d] \in Seq(Cells) /\ g \in GroundType
  BY PlacesAssumption DEF SoundGround
<1>1. CASE fits = {}
  BY <1>1 DEF Relocated
<1>2. CASE fits # {}
  <2>1. fits \in SUBSET Nat
    BY <1>0
  <2>2. Min(fits) \in fits
    <3> HIDE DEF fits
    <3>1. \E n \in fits : \A m \in fits : n <= m
      BY <1>2, <2>1, LeastNatural
    <3> QED BY <3>1 DEF Min
  <2>3. Ring[d][Min(fits)] \in Cells /\ Vacant(g, d.kind, Ring[d][Min(fits)])
    <3> DEFINE m == Min(fits)
    <3>1. m \in DOMAIN Ring[d] /\ Vacant(g, d.kind, Ring[d][m])
      BY <2>2
    <3> HIDE DEF m
    <3>2. Ring[d][m] \in Cells
      BY <1>0, <3>1
    <3> QED BY <3>1, <3>2 DEF m
  <2>4. e \in Device /\ e \notin Laid
    BY <2>3, LaidAreDevices DEF Vacant, Armed
  <2>5. Relocated(g, d) = [g EXCEPT !.moved = @ \cup {e}]
    BY <1>2, Zenon DEF Relocated
  <2> HIDE DEF e, fits
  <2> QED BY <1>0, <2>4, <2>5 DEF SoundGround, GroundType
<1> QED BY <1>1, <1>2

LEMMA Spends ==
  ASSUME NEW g \in SoundGround, NEW d
  PROVE  Spend(g, d) \in SoundGround /\ Spend(g, d).eaten = g.eaten
<1>1. CASE ~Armed(g, d)
  BY <1>1 DEF Spend
<1>2. CASE Armed(g, d) /\ d \in g.moved
  <2> DEFINE h == [g EXCEPT !.moved = @ \ {d}]
  <2>1. h \in SoundGround /\ h.eaten = g.eaten /\ d \in Device
    BY <1>2 DEF SoundGround, GroundType
  <2>2. Spend(g, d) = Relocated(h, d)
    BY <1>2 DEF Spend
  <2> HIDE DEF h
  <2> QED BY <2>1, <2>2, Relocates
<1>3. CASE Armed(g, d) /\ d \notin g.moved
  <2>1. d \in Laid /\ d \in Device /\ d \notin ToSet(g.mines) /\ d \notin ToSet(g.traps)
    BY <1>3, LaidAreDevices DEF Armed, Spent
  <2>2. d.kind = "mine" \/ d.kind = "trap"
    BY <2>1, LaidAreDevices
  <2> DEFINE h == IF d.kind = "mine" THEN [g EXCEPT !.mines = Append(@, d)]
                  ELSE [g EXCEPT !.traps = Append(@, d)]
  <2>3. g \in GroundType /\ IsInjective(g.mines) /\ IsInjective(g.traps) /\ g.moved \cap Laid = {}
    BY DEF SoundGround
  <2>4. ASSUME d.kind = "mine" PROVE h \in SoundGround /\ h.eaten = g.eaten
    <3>1. d \in LaidAs("mine") /\ g.mines \in Seq(LaidAs("mine"))
      BY <2>1, <2>3, <2>4 DEF LaidAs, GroundType
    <3>2. Append(g.mines, d) \in Seq(LaidAs("mine")) /\ IsInjective(Append(g.mines, d))
      BY <2>1, <2>3, <3>1, AppendedOnce
    <3>3. h = [g EXCEPT !.mines = Append(@, d)]
      BY <2>4
    <3> HIDE DEF h
    <3> QED BY <2>3, <3>2, <3>3 DEF SoundGround, GroundType
  <2>5. ASSUME d.kind = "trap" PROVE h \in SoundGround /\ h.eaten = g.eaten
    <3>1. d \in LaidAs("trap") /\ g.traps \in Seq(LaidAs("trap"))
      BY <2>1, <2>3, <2>5 DEF LaidAs, GroundType
    <3>2. Append(g.traps, d) \in Seq(LaidAs("trap")) /\ IsInjective(Append(g.traps, d))
      BY <2>1, <2>3, <3>1, AppendedOnce
    <3>3. h = [g EXCEPT !.traps = Append(@, d)]
      BY <2>5
    <3> HIDE DEF h
    <3> QED BY <2>3, <3>2, <3>3 DEF SoundGround, GroundType
  <2>6. h \in SoundGround /\ h.eaten = g.eaten
    BY <2>2, <2>4, <2>5
  <2>7. Spend(g, d) = Relocated(h, d)
    BY <1>3 DEF Spend
  <2> HIDE DEF h
  <2> QED BY <2>1, <2>6, <2>7, Relocates
<1> QED BY <1>1, <1>2, <1>3

SpentRun(g, list) ==
  CHOOSE after : after = [i \in 0..Len(list) |->
    IF i = 0 THEN g ELSE LET before == after[i - 1] IN Spend(before, list[i])]

LEMMA SpendsAll ==
  ASSUME NEW g \in SoundGround, NEW T, NEW list \in Seq(T)
  PROVE  SpendAll(g, list) \in SoundGround /\ SpendAll(g, list).eaten = g.eaten
<1> DEFINE S == {h \in SoundGround : h.eaten = g.eaten}
           n == Len(list)
           step == [x \in S \X T |-> Spend(x[1], x[2])]
           f == SpentRun(g, list)
<1>1. \A h \in S : \A d : Spend(h, d) \in S
  BY Spends
<1>2. n \in Nat /\ g \in S /\ \A i \in 1..n : list[i] \in T
  OBVIOUS
<1>3. step \in [S \X T -> S] /\ \A h \in S, d \in T : step[<<h, d>>] = Spend(h, d)
  BY <1>1
<1> HIDE DEF S, step
<1>4. PICK r \in [0..n -> S] : r[0] = g /\ \A i \in 1..n : r[i] = step[<<r[i - 1], list[i]>>]
  <2>1. \E r : Runs(r, S, step, g, list)
    BY <1>2, <1>3, RunExists
  <2> QED BY <2>1 DEF Runs
<1>5. r = [i \in 0..n |-> IF i = 0 THEN g ELSE Spend(r[i - 1], list[i])]
  <2>1. \A i \in 0..n : r[i] = IF i = 0 THEN g ELSE Spend(r[i - 1], list[i])
    <3> SUFFICES ASSUME NEW i \in 0..n PROVE r[i] = IF i = 0 THEN g ELSE Spend(r[i - 1], list[i])
      OBVIOUS
    <3>1. CASE i = 0
      BY <3>1, <1>4
    <3>2. CASE i # 0
      <4>1. i \in 1..n /\ r[i - 1] \in S /\ list[i] \in T
        BY <3>2, <1>2, <1>4
      <4> QED BY <3>2, <4>1, <1>3, <1>4
    <3> QED BY <3>1, <3>2
  <2> QED BY <1>4, <2>1
<1>6. f = [i \in 0..n |-> IF i = 0 THEN g ELSE Spend(f[i - 1], list[i])]
  BY <1>5, Zenon DEF SpentRun
<1> HIDE DEF f
<1>7. f[0] = g /\ \A i \in 1..n : f[i] = Spend(f[i - 1], list[i])
  <2>1. \A i \in 0..n : f[i] = IF i = 0 THEN g ELSE Spend(f[i - 1], list[i])
    BY <1>6, Zenon
  <2> QED BY <1>2, <2>1
<1>8. f[n] \in S
  <2>1. \A i \in 1..n : f[i - 1] \in S => f[i] \in S
    BY <1>1, <1>7
  <2> QED BY <1>2, <1>7, <2>1, RunStays
<1>9. SpendAll(g, list) = f[n]
  BY Zenon DEF SpendAll, SpentRun, f
<1> QED BY <1>8, <1>9 DEF S

(* Trips and chains.                                                       *)
FuseOf == [n : Nat, device : Device, depth : 0..ChainDepth]
SceneOf == [ground : SoundGround, fuses : SUBSET FuseOf, n : Nat]

\* Every bang on a fuse has a number of its own, up to the last.
Dated(s) ==
  /\ \A f \in s.fuses : f.n <= s.n
  /\ \A f, g \in s.fuses : f.n = g.n => f = g

\* r follows s: the meadow is the same, and what is new on a fuse is new.
Follows(s, r) ==
  /\ r.ground.eaten = s.ground.eaten
  /\ s.n <= r.n
  /\ \A f \in r.fuses : f \in s.fuses \/ s.n < f.n

LEMMA Trips ==
  ASSUME NEW s \in SceneOf, Dated(s), NEW d \in Device, NEW depth \in 0..ChainDepth
  PROVE  LET r == Trip(s, d, depth) IN r \in SceneOf /\ Dated(r) /\ Follows(s, r)
<1>1. CASE ~Armed(s.ground, d)
  BY <1>1 DEF Trip, Follows, SceneOf
<1>2. CASE Armed(s.ground, d)
  <2> DEFINE e == [n |-> s.n + 1, device |-> d, depth |-> depth]
             r == Trip(s, d, depth)
  <2>1. Spend(s.ground, d) \in SoundGround /\ Spend(s.ground, d).eaten = s.ground.eaten
    BY Spends DEF SceneOf
  <2>2. s.n \in Nat /\ s.fuses \subseteq FuseOf
    BY DEF SceneOf
  <2>3. e \in FuseOf /\ e.n = s.n + 1
    BY <2>2 DEF FuseOf
  <2>4. r = [ground |-> Spend(s.ground, d), n |-> s.n + 1, fuses |-> s.fuses \cup {e}]
    BY <1>2 DEF Trip
  <2> HIDE DEF e, r
  <2>5. r \in SceneOf
    BY <2>1, <2>2, <2>3, <2>4 DEF SceneOf
  <2>6. r.fuses = s.fuses \cup {e} /\ r.n = s.n + 1 /\ r.ground = Spend(s.ground, d)
    BY <2>4
  <2>7. \A f \in s.fuses : f.n \in Nat
    BY <2>2 DEF FuseOf
  <2>8. Dated(r)
    BY <2>2, <2>3, <2>6, <2>7 DEF Dated
  <2>9. Follows(s, r)
    BY <2>1, <2>2, <2>3, <2>6 DEF Follows
  <2> QED BY <2>5, <2>8, <2>9 DEF r
<1> QED BY <1>1, <1>2

LEMMA FollowsOn ==
  ASSUME NEW s \in SceneOf, NEW r \in SceneOf, NEW q \in SceneOf, Follows(s, r), Follows(r, q)
  PROVE  Follows(s, q)
<1>1. s.n \in Nat /\ r.n \in Nat /\ q.n \in Nat /\ \A f \in q.fuses : f.n \in Nat
  BY DEF SceneOf, FuseOf
<1> QED BY <1>1 DEF Follows

ChainRun(s, cell, depth) ==
  CHOOSE after : after = [i \in 0..Len(Reach[cell]) |->
    IF i = 0 THEN s
    ELSE LET before == after[i - 1] IN Trip(before, Mine(Reach[cell][i]), depth)]

LEMMA Chains ==
  ASSUME NEW s \in SceneOf, Dated(s), NEW cell \in Cells, NEW depth \in 0..ChainDepth
  PROVE  LET r == ChainFrom(s, cell, depth) IN r \in SceneOf /\ Dated(r) /\ Follows(s, r)
<1> DEFINE S == {h \in SceneOf : Dated(h) /\ Follows(s, h)}
           near == Reach[cell]
           n == Len(near)
           step == [x \in S \X Cells |-> Trip(x[1], Mine(x[2]), depth)]
           f == ChainRun(s, cell, depth)
<1>1. \A h \in S, c \in Cells : Trip(h, Mine(c), depth) \in S
  <2> SUFFICES ASSUME NEW h \in S, NEW c \in Cells PROVE Trip(h, Mine(c), depth) \in S
    OBVIOUS
  <2>1. Mine(c) \in Device
    BY LaidAreDevices DEF Mine
  <2> DEFINE r == Trip(h, Mine(c), depth)
  <2>2. r \in SceneOf /\ Dated(r) /\ Follows(h, r)
    BY <2>1, Trips
  <2> HIDE DEF r
  <2>3. Follows(s, r)
    BY <2>2, FollowsOn
  <2> QED BY <2>2, <2>3 DEF r
<1>2. near \in Seq(Cells) /\ n \in Nat /\ \A i \in 1..n : near[i] \in Cells
  BY PlacesAssumption
<1>3. s \in S
  BY DEF Follows, SceneOf
<1>4. step \in [S \X Cells -> S]
      /\ \A h \in S, c \in Cells : step[<<h, c>>] = Trip(h, Mine(c), depth)
  BY <1>1
<1> HIDE DEF S, step
<1>5. PICK r \in [0..n -> S] : r[0] = s /\ \A i \in 1..n : r[i] = step[<<r[i - 1], near[i]>>]
  <2>1. \E r : Runs(r, S, step, s, near)
    <3> HIDE DEF near, n, f
    <3> QED BY <1>2, <1>3, <1>4, RunExists
  <2> QED BY <2>1 DEF Runs
<1>6. r = [i \in 0..n |-> IF i = 0 THEN s ELSE Trip(r[i - 1], Mine(near[i]), depth)]
  <2>1. \A i \in 0..n : r[i] = IF i = 0 THEN s ELSE Trip(r[i - 1], Mine(near[i]), depth)
    <3> SUFFICES ASSUME NEW i \in 0..n
                 PROVE  r[i] = IF i = 0 THEN s ELSE Trip(r[i - 1], Mine(near[i]), depth)
      OBVIOUS
    <3>1. CASE i = 0
      BY <3>1, <1>5
    <3>2. CASE i # 0
      <4>1. i \in 1..n /\ r[i - 1] \in S /\ near[i] \in Cells
        BY <3>2, <1>2, <1>5
      <4> QED BY <3>2, <4>1, <1>4, <1>5
    <3> QED BY <3>1, <3>2
  <2> QED BY <1>5, <2>1
<1>7. f = [i \in 0..n |-> IF i = 0 THEN s ELSE Trip(f[i - 1], Mine(near[i]), depth)]
  BY <1>6, Zenon DEF ChainRun
<1> HIDE DEF f
<1>8. f[0] = s /\ \A i \in 1..n : f[i] = Trip(f[i - 1], Mine(near[i]), depth)
  <2>1. \A i \in 0..n : f[i] = IF i = 0 THEN s ELSE Trip(f[i - 1], Mine(near[i]), depth)
    BY <1>7, Zenon
  <2> QED BY <1>2, <2>1
<1>9. f[n] \in S
  <2>1. \A i \in 1..n : f[i - 1] \in S => f[i] \in S
    BY <1>1, <1>2, <1>8
  <2> QED BY <1>2, <1>3, <1>8, <2>1, RunStays
<1>10. ChainFrom(s, cell, depth) = f[n]
  BY Zenon DEF ChainFrom, ChainRun, f
<1> QED BY <1>9, <1>10 DEF S

-----------------------------------------------------------------------------
(* The shape of a session's ground.                                        *)
BangOf == [n : Nat, device : Device]
Frame == [kind : {"consume"}, cell : Tufts] \cup [kind : {"blast"}, n : Nat, device : Device]
Datagram == [has : SUBSET {"spent", "eaten", "craters"}, eaten : SUBSET Tufts,
             craters : SUBSET Cells, spent : Seq(Laid)]

Grounds ==
  /\ present \subseteq Clients
  /\ ground \in [Scenes -> SoundGround]
  /\ fuses \in [Scenes -> SUBSET FuseOf]
  /\ bangs \in Nat
  /\ \A p \in Scenes : Dated(Scene(p))

OnTheWay ==
  /\ up \in [Clients -> Seq(Frame)] /\ down \in [Clients -> Seq(BangOf)]
  /\ aloft \in [Clients -> SUBSET Datagram]

MeadowShape == Grounds /\ OnTheWay

\* The scene of p goes on: what is on a fuse there was so before, as one of
\* F, or is new.
Fires(p, F) ==
  \E r \in SceneOf :
    /\ Update(p, r) /\ Dated(r)
    /\ ground[p].eaten \subseteq r.ground.eaten
    /\ bangs <= r.n
    /\ \A f \in r.fuses : f \in F \/ bangs < f.n

LEMMA ScenesFit ==
  ASSUME Grounds, NEW p \in Scenes
  PROVE  /\ Scene(p) \in SceneOf /\ Dated(Scene(p)) /\ ground[p] \in SoundGround
         /\ Scene(p).ground = ground[p] /\ Scene(p).fuses = fuses[p] /\ Scene(p).n = bangs
BY DEF Grounds, Scene, SceneOf

LEMMA ScenePlays ==
  ASSUME Grounds, NEW p, p \in Playing
  PROVE  p \in Scenes
BY DEF Grounds, Playing, Scenes

LEMMA DepthIsDepth == 0 \in 0..ChainDepth /\ ChainDepth \in Nat
BY NumbersAssumption

LEMMA GrazeFires ==
  ASSUME Grounds, NEW p \in Scenes, NEW t \in Tufts, Graze(p, t)
  PROVE  Fires(p, fuses[p])
<1> DEFINE s == [Scene(p) EXCEPT !.ground.eaten = @ \cup {t}]
           r == Trip(s, Trap(t), 0)
<1>1. Trap(t) \in Device
  BY PlacesAssumption, LaidAreDevices DEF Trap
<1>2. /\ s \in SceneOf /\ Dated(s) /\ s.fuses = fuses[p] /\ s.n = bangs
      /\ s.ground.eaten = ground[p].eaten \cup {t}
  BY ScenesFit DEF SceneOf, SoundGround, GroundType, Dated
<1>3. Update(p, r)
  BY DEF Graze
<1> HIDE DEF s
<1>4. r \in SceneOf /\ Dated(r) /\ Follows(s, r)
  BY <1>1, <1>2, Trips, DepthIsDepth
<1> HIDE DEF r
<1> QED BY <1>2, <1>3, <1>4 DEF Fires, Follows

LEMMA StepOnFires ==
  ASSUME Grounds, NEW p \in Scenes, NEW d \in Device, StepOn(p, d)
  PROVE  Fires(p, fuses[p])
<1> DEFINE r == Trip(Scene(p), d, 0)
<1>1. Update(p, r)
  BY DEF StepOn
<1>2. r \in SceneOf /\ Dated(r) /\ Follows(Scene(p), r)
  BY ScenesFit, Trips, DepthIsDepth
<1> HIDE DEF r
<1> QED BY <1>1, <1>2, ScenesFit DEF Fires, Follows

LEMMA Craters ==
  ASSUME NEW g \in SoundGround, NEW p, NEW c \in Cells
  PROVE  /\ AddCrater(p, g, c) \in SoundGround /\ g.eaten \subseteq AddCrater(p, g, c).eaten
         /\ RetireCrater(g, c) \in SoundGround
<1>1. Under[c] \subseteq Tufts
  BY PlacesAssumption
<1>2. AddCrater(p, g, c) \in SoundGround /\ g.eaten \subseteq AddCrater(p, g, c).eaten
  BY <1>1 DEF AddCrater, SoundGround, GroundType
<1>3. RetireCrater(g, c) \in SoundGround
  BY <1>1 DEF RetireCrater, SoundGround, GroundType
<1> QED BY <1>2, <1>3

LEMMA GoOffFires ==
  ASSUME Grounds, NEW p \in Scenes, NEW f \in fuses[p], GoOff(p, f)
  PROVE  Fires(p, fuses[p] \ {f})
<1> DEFINE cell == f.device.cell
           s == [Scene(p) EXCEPT !.ground = AddCrater(p, @, f.device.cell),
                                 !.fuses = @ \ {f}]
           r == IF f.depth < ChainDepth THEN ChainFrom(s, cell, f.depth + 1) ELSE s
<1>1. f \in FuseOf /\ cell \in Cells /\ f.depth \in 0..ChainDepth
  BY LaidAreDevices DEF Grounds, FuseOf
<1>2. /\ AddCrater(p, ground[p], cell) \in SoundGround
      /\ ground[p].eaten \subseteq AddCrater(p, ground[p], cell).eaten
  BY <1>1, Craters, ScenesFit
<1>3. Update(p, r)
  BY DEF GoOff
<1>4. /\ s.ground = AddCrater(p, ground[p], cell) /\ s.fuses = fuses[p] \ {f} /\ s.n = bangs
      /\ s = [ground |-> s.ground, fuses |-> s.fuses, n |-> s.n]
  <2>1. Scene(p) = [ground |-> ground[p], fuses |-> fuses[p], n |-> bangs]
    BY DEF Scene
  <2> DEFINE g == AddCrater(p, ground[p], cell)
             F == fuses[p] \ {f}
  <2>2. s = [ground |-> g, fuses |-> F, n |-> bangs]
    <3>1. s = [[Scene(p) EXCEPT !.ground = g] EXCEPT !.fuses = F]
      BY <2>1
    <3> HIDE DEF s, g, F
    <3>2. [Scene(p) EXCEPT !.ground = g] = [ground |-> g, fuses |-> fuses[p], n |-> bangs]
      BY <2>1
    <3>3. \A x : [[ground |-> g, fuses |-> x, n |-> bangs] EXCEPT !.fuses = F]
                   = [ground |-> g, fuses |-> F, n |-> bangs]
      OBVIOUS
    <3> QED BY <3>1, <3>2, <3>3
  <2> HIDE DEF s
  <2> QED BY <2>2
<1> HIDE DEF s, cell
<1>5. s \in SceneOf /\ Dated(s)
  BY <1>2, <1>4, ScenesFit DEF SceneOf, Dated
<1>6. r \in SceneOf /\ Dated(r) /\ Follows(s, r)
  <2>1. CASE f.depth < ChainDepth
    <3>1. f.depth + 1 \in 0..ChainDepth
      BY <1>1, <2>1, DepthIsDepth
    <3> QED BY <1>1, <1>5, <2>1, <3>1, Chains
  <2>2. CASE ~(f.depth < ChainDepth)
    BY <1>5, <2>2 DEF Follows, SceneOf
  <2> QED BY <2>1, <2>2
<1> HIDE DEF r
<1> QED BY <1>2, <1>3, <1>4, <1>6 DEF Fires, Follows

\* A scene that goes on stays in shape, and the others with it.
LEMMA FiresInShape ==
  ASSUME Grounds, NEW p \in Scenes, NEW F \in SUBSET fuses[p], Fires(p, F), UNCHANGED present
  PROVE  /\ Grounds'
         /\ \A q \in Scenes : ground[q].eaten \subseteq ground'[q].eaten
         /\ bangs <= bangs' /\ \A q \in Scenes \ {p} : fuses'[q] = fuses[q]
         /\ \A f \in fuses'[p] : f \in F \/ bangs < f.n
<1>1. PICK r \in SceneOf :
        /\ Update(p, r) /\ Dated(r)
        /\ ground[p].eaten \subseteq r.ground.eaten
        /\ bangs <= r.n
        /\ \A f \in r.fuses : f \in F \/ bangs < f.n
  BY DEF Fires
<1>2. /\ ground' = [ground EXCEPT ![p] = r.ground] /\ fuses' = [fuses EXCEPT ![p] = r.fuses]
      /\ bangs' = r.n
  BY <1>1 DEF Update
<1>3. r.ground \in SoundGround /\ r.fuses \subseteq FuseOf /\ r.n \in Nat
  BY DEF SceneOf
<1>4. /\ ground' \in [Scenes -> SoundGround] /\ fuses' \in [Scenes -> SUBSET FuseOf]
      /\ bangs' \in Nat
  BY <1>2, <1>3 DEF Grounds
<1>5. /\ ground'[p] = r.ground /\ fuses'[p] = r.fuses
      /\ \A q \in Scenes \ {p} : ground'[q] = ground[q] /\ fuses'[q] = fuses[q]
  BY <1>2 DEF Grounds
<1>6. \A q \in Scenes : Dated(Scene(q))'
  <2> SUFFICES ASSUME NEW q \in Scenes PROVE Dated(Scene(q))'
    OBVIOUS
  <2>1. CASE q = p
    BY <1>1, <1>2, <1>5, <2>1 DEF Dated, Scene
  <2>2. CASE q # p
    <3>1. Dated(Scene(q)) /\ fuses'[q] = fuses[q] /\ bangs <= bangs' /\ bangs' \in Nat /\ bangs \in Nat
      BY <1>1, <1>2, <1>4, <1>5, <2>2 DEF Grounds
    <3>2. \A f \in fuses[q] : f.n \in Nat
      BY DEF Grounds, FuseOf
    <3> QED BY <3>1, <3>2 DEF Dated, Scene
  <2> QED BY <2>1, <2>2
<1> QED BY <1>1, <1>2, <1>4, <1>5, <1>6 DEF Grounds

LEMMA StartsInShape == MeadowInit => MeadowShape
<1> SUFFICES ASSUME MeadowInit PROVE MeadowShape
  OBVIOUS
<1>1. Fresh \in SoundGround
  BY DEF Fresh, SoundGround, GroundType, IsInjective
<1>2. \A p \in Scenes : Dated(Scene(p))
  BY DEF MeadowInit, Dated, Scene
<1> QED BY <1>1, <1>2, PlacesAssumption DEF MeadowInit, MeadowShape, Grounds, OnTheWay

LEMMA SnapshotsFit ==
  ASSUME NEW g \in SoundGround
  PROVE  Snapshot(g) \in Datagram
<1>1. Fit(g) \subseteq {"spent", "eaten", "craters"}
  BY DEF Fit
<1>2. g.mines \in Seq(Laid) /\ g.traps \in Seq(Laid)
  BY DEF SoundGround, GroundType, LaidAs
<1>3. g.mines \o g.traps \in Seq(Laid)
  BY <1>2
<1> QED BY <1>1, <1>3 DEF Snapshot, Datagram, SoundGround, GroundType

LEMMA Mirrors ==
  ASSUME NEW g \in SoundGround, NEW s \in Datagram
  PROVE  /\ Applied(g, s) \in SoundGround
         /\ Applied(g, s).eaten = IF "eaten" \in s.has THEN s.eaten ELSE g.eaten
<1> DEFINE h == [g EXCEPT !.eaten = IF "eaten" \in s.has THEN s.eaten ELSE @,
                          !.craters = IF "craters" \in s.has THEN s.craters ELSE @]
<1>1. /\ h \in SoundGround
      /\ h.eaten = IF "eaten" \in s.has THEN s.eaten ELSE g.eaten
  BY DEF SoundGround, GroundType, Datagram
<1>2. Applied(g, s) = IF "spent" \in s.has THEN SpendAll(h, s.spent) ELSE h
  BY DEF Applied
<1>3. s.spent \in Seq(Laid)
  BY DEF Datagram
<1> HIDE DEF h
<1> QED BY <1>1, <1>2, <1>3, SpendsAll

LEMMA RemoteBlasts ==
  ASSUME NEW g \in SoundGround, NEW p, NEW d \in Device
  PROVE  /\ RemoteBlast(p, g, d) \in SoundGround
         /\ g.eaten \subseteq RemoteBlast(p, g, d).eaten
BY Spends, Craters, LaidAreDevices DEF RemoteBlast

\* One scene's ground changes, and nothing is lit.
LEMMA GroundInShape ==
  ASSUME Grounds, NEW p \in Scenes, NEW g \in SoundGround,
         ground' = [ground EXCEPT ![p] = g], present' \subseteq Clients, UNCHANGED <<fuses, bangs>>
  PROVE  Grounds' /\ \A q \in Scenes : ground'[q] = IF q = p THEN g ELSE ground[q]
<1>1. ground' \in [Scenes -> SoundGround]
  BY DEF Grounds
<1>2. \A q \in Scenes : Dated(Scene(q))'
  BY DEF Grounds, Dated, Scene
<1> QED BY <1>1, <1>2 DEF Grounds

(* What is queued.                                                         *)
LEMMA ReportFits ==
  ASSUME OnTheWay, NEW p \in Scenes, NEW frame \in Frame, Report(p, frame)
  PROVE  /\ up' \in [Clients -> Seq(Frame)]
         /\ p = Authority => up' = up
         /\ p # Authority => p \in Clients /\ up' = [up EXCEPT ![p] = Append(@, frame)]
BY DEF OnTheWay, Report, Scenes

LEMMA RelayFits ==
  ASSUME OnTheWay, NEW by, NEW n \in Nat, NEW d \in Device, Relay(by, n, d)
  PROVE  down' \in [Clients -> Seq(BangOf)]
<1>1. [n |-> n, device |-> d] \in BangOf
  BY DEF BangOf
<1> QED BY <1>1 DEF OnTheWay, Relay

LEMMA HeadsFit ==
  ASSUME OnTheWay, NEW c \in Clients
  PROVE  /\ up[c] # <<>> => Head(up[c]) \in Frame /\ Tail(up[c]) \in Seq(Frame)
         /\ down[c] # <<>> => Head(down[c]) \in BangOf /\ Tail(down[c]) \in Seq(BangOf)
BY DEF OnTheWay

-----------------------------------------------------------------------------
(* Every step keeps the shape, and takes no tuft back but on a snapshot.   *)

Regrown(c) == ground[c].eaten \ ground'[c].eaten

OnWord ==
  \A c \in Clients : c \in present /\ Regrown(c) # {} => \E s \in aloft[c] : Regrown(c) \cap s.eaten = {}

LEMMA Apart == Authority \in Scenes /\ Clients \subseteq Scenes /\ Authority \notin Clients
BY PlacesAssumption DEF Scenes

LEMMA KeptEaten ==
  ASSUME \A c \in Clients \cap present : ground[c].eaten \subseteq ground'[c].eaten
  PROVE  OnWord
BY DEF OnWord, Regrown

LEMMA UnchangedGrounds ==
  ASSUME Grounds, UNCHANGED <<present, ground, fuses, bangs>>
  PROVE  Grounds'
BY DEF Grounds, Dated, Scene

LEMMA GrazeShape ==
  ASSUME MeadowShape, NEW p \in Scenes, NEW t \in Tufts, Graze(p, t) PROVE MeadowShape' /\ OnWord
<1>1. Grounds' /\ \A q \in Scenes : ground[q].eaten \subseteq ground'[q].eaten
  BY GrazeFires, FiresInShape DEF MeadowShape, Graze
<1>2. [kind |-> "consume", cell |-> t] \in Frame
  BY DEF Frame
<1>3. up' \in [Clients -> Seq(Frame)]
  BY <1>2, ReportFits DEF Graze, MeadowShape
<1> QED BY <1>1, <1>3, KeptEaten, Apart DEF MeadowShape, OnTheWay, Graze

LEMMA StepOnShape ==
  ASSUME MeadowShape, NEW p \in Scenes, NEW d \in Device, StepOn(p, d) PROVE MeadowShape' /\ OnWord
<1>1. Grounds' /\ \A q \in Scenes : ground[q].eaten \subseteq ground'[q].eaten
  BY StepOnFires, FiresInShape DEF MeadowShape, StepOn
<1> QED BY <1>1, KeptEaten, Apart DEF MeadowShape, OnTheWay, StepOn

LEMMA GoOffShape ==
  ASSUME MeadowShape, NEW p \in Scenes, NEW f \in fuses[p], GoOff(p, f) PROVE MeadowShape' /\ OnWord
<1>1. Grounds' /\ \A q \in Scenes : ground[q].eaten \subseteq ground'[q].eaten
  BY GoOffFires, FiresInShape DEF MeadowShape, GoOff
<1>2. f.n \in Nat /\ f.device \in Device /\ [kind |-> "blast", n |-> f.n, device |-> f.device] \in Frame
  BY DEF MeadowShape, Grounds, FuseOf, Frame
<1>3. up' \in [Clients -> Seq(Frame)]
  BY <1>2, ReportFits DEF GoOff, MeadowShape
<1>4. down' \in [Clients -> Seq(BangOf)]
  <2>1. CASE p = Authority /\ ~Dedicated
    BY <1>2, <2>1, RelayFits DEF GoOff, MeadowShape
  <2>2. CASE ~(p = Authority /\ ~Dedicated)
    BY <2>2 DEF GoOff, MeadowShape, OnTheWay
  <2> QED BY <2>1, <2>2
<1> QED BY <1>1, <1>3, <1>4, KeptEaten, Apart DEF MeadowShape, OnTheWay, GoOff

LEMMA HearBiteShape ==
  ASSUME MeadowShape, NEW c \in Clients, HearBite(c) PROVE MeadowShape' /\ OnWord
<1> DEFINE t == Head(up[c]).cell
           g == [ground[Authority] EXCEPT !.eaten = @ \cup {t}]
<1>1. up[c] # <<>> /\ Head(up[c]) \in Frame /\ Head(up[c]).kind = "consume"
  BY HeadsFit DEF HearBite, MeadowShape
<1>2. t \in Tufts
  BY <1>1 DEF Frame
<1>3. ground[Authority] \in SoundGround
  BY Apart DEF MeadowShape, Grounds
<1>4. g \in SoundGround
  BY <1>2, <1>3 DEF SoundGround, GroundType
<1>5. ground' = [ground EXCEPT ![Authority] = g]
  BY DEF HearBite
<1> HIDE DEF g
<1>6. Grounds' /\ \A q \in Scenes : ground'[q] = IF q = Authority THEN g ELSE ground[q]
  BY <1>4, <1>5, Apart, GroundInShape DEF HearBite, MeadowShape, Grounds, counters
<1>7. up' \in [Clients -> Seq(Frame)]
  BY <1>1, HeadsFit DEF HearBite, MeadowShape, OnTheWay
<1>8. OnWord
  BY <1>6, Apart, KeptEaten
<1> QED BY <1>6, <1>7, <1>8 DEF MeadowShape, OnTheWay, HearBite

LEMMA HearBangShape ==
  ASSUME MeadowShape, NEW c \in Clients, HearBang(c) PROVE MeadowShape' /\ OnWord
<1> DEFINE bang == Head(up[c])
           g == RemoteBlast(Authority, ground[Authority], bang.device)
<1>1. bang \in Frame /\ bang.kind = "blast"
  BY HeadsFit DEF HearBang, MeadowShape
<1>2. bang.n \in Nat /\ bang.device \in Device
  BY <1>1 DEF Frame
<1>3. up' \in [Clients -> Seq(Frame)]
  BY HeadsFit DEF HearBang, MeadowShape, OnTheWay
<1>4. CASE Known(bang.device)
  <2>1. ground[Authority] \in SoundGround
    BY Apart DEF MeadowShape, Grounds
  <2>2. g \in SoundGround
    BY <1>2, <2>1, RemoteBlasts
  <2>3. ground' = [ground EXCEPT ![Authority] = g] /\ Relay(c, bang.n, bang.device)
    BY <1>4 DEF HearBang
  <2>4. down' \in [Clients -> Seq(BangOf)]
    BY <1>2, <2>3, RelayFits DEF MeadowShape
  <2> HIDE DEF g, bang
  <2>5. Grounds' /\ \A q \in Scenes : ground'[q] = IF q = Authority THEN g ELSE ground[q]
    BY <2>2, <2>3, Apart, GroundInShape DEF HearBang, MeadowShape, Grounds, counters
  <2>6. OnWord
    BY <2>5, Apart, KeptEaten
  <2> QED BY <1>3, <2>4, <2>5, <2>6 DEF MeadowShape, OnTheWay, HearBang
<1>5. CASE ~Known(bang.device)
  <2>1. UNCHANGED <<present, ground, fuses, bangs, down, aloft>>
    BY <1>5 DEF HearBang, counters
  <2>2. Grounds'
    BY <2>1, UnchangedGrounds DEF MeadowShape
  <2> QED BY <1>3, <2>1, <2>2, KeptEaten DEF MeadowShape, OnTheWay
<1> QED BY <1>4, <1>5

LEMMA DropReportShape ==
  ASSUME MeadowShape, NEW c \in Clients, DropReport(c) PROVE MeadowShape' /\ OnWord
<1>1. up' \in [Clients -> Seq(Frame)]
  BY HeadsFit DEF DropReport, MeadowShape, OnTheWay
<1>2. UNCHANGED <<present, ground, fuses, bangs, down, aloft>>
  BY DEF DropReport, counters
<1> QED BY <1>1, <1>2, KeptEaten, UnchangedGrounds DEF MeadowShape, OnTheWay

LEMMA ApplyBangShape ==
  ASSUME MeadowShape, NEW c \in Clients, ApplyBang(c) PROVE MeadowShape' /\ OnWord
<1> DEFINE bang == Head(down[c])
           g == RemoteBlast(c, ground[c], bang.device)
<1>1. bang \in BangOf /\ bang.device \in Device
  BY HeadsFit DEF ApplyBang, MeadowShape, BangOf
<1>2. down' \in [Clients -> Seq(BangOf)]
  BY HeadsFit DEF ApplyBang, MeadowShape, OnTheWay
<1>3. ground[c] \in SoundGround
  BY Apart DEF MeadowShape, Grounds
<1>4. g \in SoundGround /\ ground[c].eaten \subseteq g.eaten
  BY <1>1, <1>3, RemoteBlasts
<1>5. ground' = [ground EXCEPT ![c] = g]
  BY DEF ApplyBang
<1> HIDE DEF g, bang
<1>6. Grounds' /\ \A q \in Scenes : ground'[q] = IF q = c THEN g ELSE ground[q]
  BY <1>4, <1>5, Apart, GroundInShape DEF ApplyBang, MeadowShape, Grounds, counters
<1>7. OnWord
  BY <1>4, <1>6, Apart, KeptEaten
<1> QED BY <1>2, <1>6, <1>7 DEF MeadowShape, OnTheWay, ApplyBang

LEMMA PublishShape ==
  ASSUME MeadowShape, Publish PROVE MeadowShape' /\ OnWord
<1>1. PICK kept : aloft' = [c \in Clients |->
                    IF c \in present
                    THEN (aloft[c] \cap kept) \cup {Snapshot(ground[Authority])} ELSE {}]
  BY Zenon DEF Publish
<1>2. Snapshot(ground[Authority]) \in Datagram
  BY Apart, SnapshotsFit DEF MeadowShape, Grounds
<1>3. aloft' \in [Clients -> SUBSET Datagram]
  BY <1>1, <1>2 DEF MeadowShape, OnTheWay
<1>4. UNCHANGED <<present, ground, fuses, bangs, down, up>>
  BY DEF Publish, counters
<1> QED BY <1>3, <1>4, KeptEaten, UnchangedGrounds DEF MeadowShape, OnTheWay

LEMMA MirrorShape ==
  ASSUME MeadowShape, NEW c \in Clients, NEW s \in aloft[c], Mirror(c, s) PROVE MeadowShape' /\ OnWord
<1> DEFINE g == Applied(ground[c], s)
<1>1. s \in Datagram /\ ground[c] \in SoundGround
  BY Apart DEF MeadowShape, OnTheWay, Grounds
<1>2. g \in SoundGround /\ g.eaten = IF "eaten" \in s.has THEN s.eaten ELSE ground[c].eaten
  BY <1>1, Mirrors
<1>3. ground' = [ground EXCEPT ![c] = g]
  BY DEF Mirror
<1> HIDE DEF g
<1>4. Grounds' /\ \A q \in Scenes : ground'[q] = IF q = c THEN g ELSE ground[q]
  BY <1>2, <1>3, Apart, GroundInShape DEF Mirror, MeadowShape, Grounds, counters
<1>5. OnWord
  <2> SUFFICES ASSUME NEW d \in Clients, Regrown(d) # {}
               PROVE  \E x \in aloft[d] : Regrown(d) \cap x.eaten = {}
    BY DEF OnWord
  <2>1. d = c
    BY <1>4, Apart DEF Regrown
  <2>2. Regrown(d) \cap s.eaten = {}
    BY <1>2, <1>4, <2>1, Apart DEF Regrown
  <2> QED BY <2>1, <2>2
<1>6. aloft' \in [Clients -> SUBSET Datagram]
  BY DEF Mirror, MeadowShape, OnTheWay
<1> QED BY <1>4, <1>5, <1>6 DEF MeadowShape, OnTheWay, Mirror

LEMMA RegrowShape ==
  ASSUME MeadowShape, NEW t \in Tufts, Regrow(t) PROVE MeadowShape' /\ OnWord
<1> DEFINE g == [ground[Authority] EXCEPT !.eaten = @ \ {t}]
<1>1. ground[Authority] \in SoundGround
  BY Apart DEF MeadowShape, Grounds
<1>2. g \in SoundGround
  BY <1>1 DEF SoundGround, GroundType
<1>3. ground' = [ground EXCEPT ![Authority] = g]
  BY DEF Regrow
<1> HIDE DEF g
<1>4. Grounds' /\ \A q \in Scenes : ground'[q] = IF q = Authority THEN g ELSE ground[q]
  BY <1>2, <1>3, Apart, GroundInShape DEF Regrow, MeadowShape, Grounds
<1>5. OnWord
  BY <1>4, Apart, KeptEaten
<1> QED BY <1>4, <1>5 DEF MeadowShape, OnTheWay, Regrow

LEMMA HealShape ==
  ASSUME MeadowShape, NEW x \in Cells, Heal(x) PROVE MeadowShape' /\ OnWord
<1> DEFINE g == RetireCrater(ground[Authority], x)
<1>1. ground[Authority] \in SoundGround
  BY Apart DEF MeadowShape, Grounds
<1>2. g \in SoundGround
  BY <1>1, Craters
<1>3. ground' = [ground EXCEPT ![Authority] = g]
  BY DEF Heal
<1> HIDE DEF g
<1>4. Grounds' /\ \A q \in Scenes : ground'[q] = IF q = Authority THEN g ELSE ground[q]
  BY <1>2, <1>3, Apart, GroundInShape DEF Heal, MeadowShape, Grounds
<1>5. OnWord
  BY <1>4, Apart, KeptEaten
<1> QED BY <1>4, <1>5 DEF MeadowShape, OnTheWay, Heal

LEMMA JoinShape ==
  ASSUME MeadowShape, NEW c \in Clients, Join(c) PROVE MeadowShape' /\ OnWord
<1>1. PICK left \in Leftovers : ground' = [ground EXCEPT ![c] = SpendAll(Fresh, left)]
  BY DEF Join
<1> DEFINE g == SpendAll(Fresh, left)
<1>2. Fresh \in SoundGround
  BY DEF Fresh, SoundGround, GroundType, IsInjective
<1>3. left \in Seq(Laid)
  BY PlacesAssumption
<1>4. g \in SoundGround
  BY <1>2, <1>3, SpendsAll
<1>5. present' \subseteq Clients /\ c \notin present /\ UNCHANGED <<fuses, bangs>>
  BY DEF Join, MeadowShape, Grounds, counters
<1> HIDE DEF g
<1>6. Grounds' /\ \A q \in Scenes : ground'[q] = IF q = c THEN g ELSE ground[q]
  BY <1>1, <1>4, <1>5, Apart, GroundInShape DEF MeadowShape, g
<1>7. OnWord
  BY <1>5, <1>6, Apart, KeptEaten
<1> QED BY <1>6, <1>7 DEF MeadowShape, OnTheWay, Join

LEMMA ShapeStep ==
  ASSUME MeadowShape, [MeadowNext]_meadowVars PROVE MeadowShape' /\ OnWord
<1>1. CASE UNCHANGED meadowVars
  <2>1. UNCHANGED <<present, ground, fuses, bangs, up, down, aloft>>
    BY <1>1 DEF meadowVars, counters
  <2> QED BY <2>1, KeptEaten, UnchangedGrounds DEF MeadowShape, OnTheWay
<1>2. CASE \E p \in Scenes, t \in Tufts : Graze(p, t)
  BY <1>2, GrazeShape
<1>3. CASE \E p \in Scenes, d \in Device : StepOn(p, d)
  BY <1>3, StepOnShape
<1>4. CASE \E p \in Scenes : \E f \in fuses[p] : GoOff(p, f)
  BY <1>4, GoOffShape
<1>5. CASE \E c \in Clients : HearBite(c) \/ HearBang(c) \/ DropReport(c)
  BY <1>5, HearBiteShape, HearBangShape, DropReportShape
<1>6. CASE \E c \in Clients : ApplyBang(c) \/ Join(c)
  BY <1>6, ApplyBangShape, JoinShape
<1>7. CASE Publish
  BY <1>7, PublishShape
<1>8. CASE \E c \in Clients : \E s \in aloft[c] : Mirror(c, s)
  BY <1>8, MirrorShape
<1>9. CASE \E t \in Tufts : Regrow(t)
  BY <1>9, RegrowShape
<1>10. CASE \E x \in Cells : Heal(x)
  BY <1>10, HealShape
<1> QED BY <1>1, <1>2, <1>3, <1>4, <1>5, <1>6, <1>7, <1>8, <1>9, <1>10, Zenon DEF MeadowNext

LEMMA ShapeHolds == MeadowSpec => []MeadowShape
BY StartsInShape, ShapeStep, PTL DEF MeadowSpec

(* In every scene a device goes off at most once where it was laid, and a  *)
(* replacement never stands where a device was laid, whatever goes off in  *)
(* which order and whatever snapshots arrive.                              *)
THEOREM FieldsStaySound == MeadowSpec => []FieldsAreSound
<1>1. MeadowShape => FieldsAreSound
  BY DEF MeadowShape, Grounds, FieldsAreSound, SoundGround
<1> QED BY <1>1, ShapeHolds, PTL

(* A tuft comes back for a client only on the host's word.                 *)
THEOREM TuftsAlwaysComeBackOnWord == MeadowSpec => TuftsComeBackOnWord
<1>1. MeadowShape /\ [MeadowNext]_meadowVars => 
        [\A c \in Clients :
           LET back == ground[c].eaten \ ground'[c].eaten
           IN c \in present /\ back # {} => \E s \in aloft[c] : back \cap s.eaten = {}]_meadowVars
  BY ShapeStep DEF OnWord, Regrown
<1> QED BY <1>1, ShapeHolds, PTL DEF MeadowSpec, TuftsComeBackOnWord

-----------------------------------------------------------------------------
(* A bang is felt once.                                                    *)

IsBang(frame, n) == frame.kind = "blast" /\ frame.n = n
Lit(p, n) == \E f \in fuses[p] : f.n = n
GoingUp(c, n) == \E i \in DOMAIN up[c] : IsBang(up[c][i], n)
ComingDown(c, n) == \E i \in DOMAIN down[c] : down[c][i].n = n

OnceUp(c, n) == \A i, j \in DOMAIN up[c] : IsBang(up[c][i], n) /\ IsBang(up[c][j], n) => i = j
OnceDown(c, n) == \A i, j \in DOMAIN down[c] : down[c][i].n = n /\ down[c][j].n = n => i = j

\* Numbers are given out in turn.
Numbered ==
  \A n \in Nat :
    \/ \E p \in Scenes : Lit(p, n) \/ n \in felt[p]
    \/ \E c \in Clients : GoingUp(c, n) \/ ComingDown(c, n)
    => n <= bangs

\* What burns somewhere burns nowhere else, and nobody has heard of it.
FusesAreNews ==
  \A p \in Scenes, n \in Nat : Lit(p, n) =>
    /\ \A q \in Scenes : n \notin felt[q] /\ (q # p => ~Lit(q, n))
    /\ \A c \in Clients : ~GoingUp(c, n) /\ ~ComingDown(c, n)

\* A report is the only one, and only who sent it has felt the bang.
ReportsAreNews ==
  \A c \in Clients, n \in Nat : GoingUp(c, n) =>
    /\ OnceUp(c, n)
    /\ \A q \in Scenes \ {c} : n \notin felt[q]
    /\ \A d \in Clients : ~ComingDown(d, n) /\ (d # c => ~GoingUp(d, n))

\* What is relayed to a client it has not felt, and it is relayed once.
RelaysAreNews ==
  \A c \in Clients, n \in Nat : ComingDown(c, n) =>
    /\ n \notin felt[c] /\ OnceDown(c, n)

Felt ==
  /\ felt \in [Scenes -> SUBSET Nat] /\ again = [p \in Scenes |-> {}]

Once == Felt /\ Numbered /\ FusesAreNews /\ ReportsAreNews /\ RelaysAreNews

(* Queues.                                                                 *)
LEMMA Appending ==
  ASSUME NEW S, NEW q \in Seq(S), NEW x
  PROVE  /\ DOMAIN Append(q, x) = DOMAIN q \cup {Len(q) + 1} /\ Len(q) + 1 \notin DOMAIN q
         /\ Append(q, x)[Len(q) + 1] = x
         /\ \A i \in DOMAIN q : Append(q, x)[i] = q[i]
OBVIOUS

LEMMA Taking ==
  ASSUME NEW S, NEW q \in Seq(S), q # <<>>
  PROVE  /\ Head(q) = q[1] /\ 1 \in DOMAIN q
         /\ \A i \in DOMAIN Tail(q) :
              i + 1 \in DOMAIN q /\ i + 1 # 1 /\ Tail(q)[i] = q[i + 1] /\ i \in Nat
OBVIOUS

LEMMA UpGrows ==
  ASSUME OnTheWay, NEW c \in Clients, NEW frame, up' = [up EXCEPT ![c] = Append(@, frame)]
  PROVE  \A d \in Clients, n \in Nat :
           /\ GoingUp(d, n)' => GoingUp(d, n) \/ (d = c /\ IsBang(frame, n))
           /\ OnceUp(d, n) /\ ~(d = c /\ IsBang(frame, n)) => OnceUp(d, n)'
           /\ ~GoingUp(d, n) => OnceUp(d, n)'
<1> SUFFICES ASSUME NEW d \in Clients, NEW n \in Nat
             PROVE  /\ GoingUp(d, n)' => GoingUp(d, n) \/ (d = c /\ IsBang(frame, n))
                    /\ OnceUp(d, n) /\ ~(d = c /\ IsBang(frame, n)) => OnceUp(d, n)'
                    /\ ~GoingUp(d, n) => OnceUp(d, n)'
  OBVIOUS
<1>1. CASE d # c
  <2>1. up'[d] = up[d]
    BY <1>1 DEF OnTheWay
  <2> QED BY <1>1, <2>1, Zenon DEF GoingUp, OnceUp
<1>2. CASE d = c
  <2>1. up'[d] = Append(up[d], frame) /\ up[d] \in Seq(Frame)
    BY <1>2 DEF OnTheWay
  <2>2. /\ DOMAIN up'[d] = DOMAIN up[d] \cup {Len(up[d]) + 1} /\ up'[d][Len(up[d]) + 1] = frame
        /\ \A i \in DOMAIN up[d] : up'[d][i] = up[d][i]
    BY <2>1, Appending
  <2> QED BY <1>2, <2>2, Zenon DEF GoingUp, OnceUp
<1> QED BY <1>1, <1>2

LEMMA UpShrinks ==
  ASSUME OnTheWay, NEW c \in Clients, up[c] # <<>>, up' = [up EXCEPT ![c] = Tail(@)]
  PROVE  /\ \A d \in Clients, n \in Nat :
              (GoingUp(d, n)' => GoingUp(d, n)) /\ (OnceUp(d, n) => OnceUp(d, n)')
         /\ \A n \in Nat : IsBang(Head(up[c]), n) => GoingUp(c, n) /\ (OnceUp(c, n) => ~GoingUp(c, n)')
<1>0. /\ up'[c] = Tail(up[c]) /\ Head(up[c]) = up[c][1] /\ 1 \in DOMAIN up[c]
      /\ \A i \in DOMAIN up'[c] :
           i + 1 \in DOMAIN up[c] /\ i + 1 # 1 /\ up'[c][i] = up[c][i + 1] /\ i \in Nat
  <2>1. up'[c] = Tail(up[c]) /\ up[c] \in Seq(Frame)
    BY DEF OnTheWay
  <2> QED BY <2>1, Taking
<1>1. ASSUME NEW d \in Clients, NEW n \in Nat
      PROVE  (GoingUp(d, n)' => GoingUp(d, n)) /\ (OnceUp(d, n) => OnceUp(d, n)')
  <2>1. CASE d # c
    <3>1. up'[d] = up[d]
      BY <2>1 DEF OnTheWay
    <3> QED BY <2>1, <3>1, Zenon DEF GoingUp, OnceUp
  <2>2. CASE d = c
    <3>1. GoingUp(c, n)' => GoingUp(c, n)
      BY <1>0, Zenon DEF GoingUp
    <3>2. ASSUME OnceUp(c, n), NEW i \in DOMAIN up'[c], NEW j \in DOMAIN up'[c],
                 IsBang(up'[c][i], n), IsBang(up'[c][j], n)
          PROVE  i = j
      <4>1. i + 1 = j + 1
        BY <1>0, <3>2, Zenon DEF OnceUp
      <4> QED BY <1>0, <4>1
    <3> QED BY <2>2, <3>1, <3>2 DEF OnceUp
  <2> QED BY <2>1, <2>2
<1>2. ASSUME NEW n \in Nat, IsBang(Head(up[c]), n)
      PROVE  GoingUp(c, n) /\ (OnceUp(c, n) => ~GoingUp(c, n)')
  <2>1. GoingUp(c, n)
    BY <1>0, <1>2, Zenon DEF GoingUp
  <2>2. OnceUp(c, n) => ~GoingUp(c, n)'
    BY <1>0, <1>2, Zenon DEF GoingUp, OnceUp
  <2> QED BY <2>1, <2>2
<1> QED BY <1>1, <1>2

LEMMA DownGrows ==
  ASSUME OnTheWay, NEW by, NEW m, NEW x, Relay(by, m, x)
  PROVE  \A d \in Clients, n \in Nat :
           /\ ComingDown(d, n)' => ComingDown(d, n) \/ (d \in Targets(by) /\ n = m)
           /\ OnceDown(d, n) /\ n # m => OnceDown(d, n)'
           /\ ~ComingDown(d, n) => OnceDown(d, n)'
           /\ d \notin Targets(by) => (OnceDown(d, n) => OnceDown(d, n)')
<1> SUFFICES ASSUME NEW d \in Clients, NEW n \in Nat
             PROVE  /\ ComingDown(d, n)' => ComingDown(d, n) \/ (d \in Targets(by) /\ n = m)
                    /\ OnceDown(d, n) /\ n # m => OnceDown(d, n)'
                    /\ ~ComingDown(d, n) => OnceDown(d, n)'
                    /\ d \notin Targets(by) => (OnceDown(d, n) => OnceDown(d, n)')
  OBVIOUS
<1>1. CASE d \notin Targets(by)
  <2>1. down'[d] = down[d]
    BY <1>1, Zenon DEF Relay
  <2> QED BY <1>1, <2>1, Zenon DEF ComingDown, OnceDown
<1>2. CASE d \in Targets(by)
  <2> DEFINE e == [n |-> m, device |-> x]
  <2>1. down'[d] = Append(down[d], e) /\ down[d] \in Seq(BangOf)
    BY <1>2 DEF OnTheWay, Relay
  <2>2. e.n = m
    OBVIOUS
  <2> HIDE DEF e
  <2>3. /\ DOMAIN down'[d] = DOMAIN down[d] \cup {Len(down[d]) + 1} /\ down'[d][Len(down[d]) + 1] = e
        /\ \A i \in DOMAIN down[d] : down'[d][i] = down[d][i]
    BY <2>1, Appending
  <2> QED BY <1>2, <2>2, <2>3, Zenon DEF ComingDown, OnceDown
<1> QED BY <1>1, <1>2

LEMMA DownShrinks ==
  ASSUME OnTheWay, NEW c \in Clients, down[c] # <<>>, down' = [down EXCEPT ![c] = Tail(@)]
  PROVE  /\ \A d \in Clients, n \in Nat :
              (ComingDown(d, n)' => ComingDown(d, n)) /\ (OnceDown(d, n) => OnceDown(d, n)')
         /\ \A n \in Nat : n = Head(down[c]).n =>
              ComingDown(c, n) /\ (OnceDown(c, n) => ~ComingDown(c, n)')
<1>0. /\ down'[c] = Tail(down[c]) /\ Head(down[c]) = down[c][1] /\ 1 \in DOMAIN down[c]
      /\ \A i \in DOMAIN down'[c] :
           i + 1 \in DOMAIN down[c] /\ i + 1 # 1 /\ down'[c][i] = down[c][i + 1] /\ i \in Nat
  <2>1. down'[c] = Tail(down[c]) /\ down[c] \in Seq(BangOf)
    BY DEF OnTheWay
  <2> QED BY <2>1, Taking
<1>1. ASSUME NEW d \in Clients, NEW n \in Nat
      PROVE  (ComingDown(d, n)' => ComingDown(d, n)) /\ (OnceDown(d, n) => OnceDown(d, n)')
  <2>1. CASE d # c
    <3>1. down'[d] = down[d]
      BY <2>1 DEF OnTheWay
    <3> QED BY <2>1, <3>1, Zenon DEF ComingDown, OnceDown
  <2>2. CASE d = c
    <3>1. ComingDown(c, n)' => ComingDown(c, n)
      BY <1>0, Zenon DEF ComingDown
    <3>2. ASSUME OnceDown(c, n), NEW i \in DOMAIN down'[c], NEW j \in DOMAIN down'[c],
                 down'[c][i].n = n, down'[c][j].n = n
          PROVE  i = j
      <4>1. i + 1 = j + 1
        BY <1>0, <3>2, Zenon DEF OnceDown
      <4> QED BY <1>0, <4>1
    <3> QED BY <2>2, <3>1, <3>2 DEF OnceDown
  <2> QED BY <2>1, <2>2
<1>2. ASSUME NEW n \in Nat, n = Head(down[c]).n
      PROVE  ComingDown(c, n) /\ (OnceDown(c, n) => ~ComingDown(c, n)')
  <2>1. ComingDown(c, n)
    BY <1>0, <1>2, Zenon DEF ComingDown
  <2>2. OnceDown(c, n) => ~ComingDown(c, n)'
    BY <1>0, <1>2, Zenon DEF ComingDown, OnceDown
  <2> QED BY <2>1, <2>2
<1> QED BY <1>1, <1>2

(* Steps in which nobody feels anything, and no word of a bang is new.     *)

\* Who lights something, of the scenes, gives it a number that is new.
Lights(p) ==
  /\ bangs <= bangs' /\ bangs' \in Nat
  /\ \A q \in Scenes, n \in Nat : Lit(q, n)' => Lit(q, n) \/ (q = p /\ bangs < n /\ n <= bangs')

LEMMA Lighting ==
  ASSUME Grounds, NEW p \in Scenes, NEW F \in SUBSET fuses[p], Fires(p, F), UNCHANGED present
  PROVE  Lights(p) /\ \A n \in Nat : Lit(p, n)' => (\E f \in F : f.n = n) \/ bangs < n
<1>1. /\ Grounds'
      /\ bangs <= bangs' /\ \A q \in Scenes \ {p} : fuses'[q] = fuses[q]
      /\ \A f \in fuses'[p] : f \in F \/ bangs < f.n
  BY FiresInShape
<1>2. \A n \in Nat : \A q \in Scenes : Lit(q, n)' => n <= bangs'
  BY <1>1 DEF Grounds, Dated, Scene, Lit
<1>3. \A n \in Nat : Lit(p, n)' => (\E f \in F : f.n = n) \/ bangs < n
  BY <1>1 DEF Lit
<1>4. \A q \in Scenes, n \in Nat : Lit(q, n)' => Lit(q, n) \/ (q = p /\ bangs < n)
  BY <1>1, <1>3 DEF Lit
<1> QED BY <1>1, <1>2, <1>3, <1>4 DEF Lights, Grounds

LEMMA NothingLit ==
  ASSUME Grounds, NEW p \in Scenes, UNCHANGED <<fuses, bangs>>
  PROVE  Lights(p)
BY DEF Lights, Grounds, Lit

NoNews ==
  \A d \in Clients, n \in Nat :
    /\ (GoingUp(d, n)' => GoingUp(d, n)) /\ (OnceUp(d, n) => OnceUp(d, n)')
    /\ (ComingDown(d, n)' => ComingDown(d, n)) /\ (OnceDown(d, n) => OnceDown(d, n)')

LEMMA QuietOnce ==
  ASSUME Once, Grounds, NEW p \in Scenes, Lights(p), NoNews, UNCHANGED <<felt, again>>
  PROVE  Once'
<1>0. bangs \in Nat /\ bangs' \in Nat /\ bangs <= bangs'
  BY DEF Grounds, Lights
<1>1. Felt'
  BY DEF Once, Felt
<1>2. Numbered'
  <2> SUFFICES ASSUME NEW n \in Nat,
                      (\/ \E q \in Scenes : Lit(q, n) \/ n \in felt[q]
                       \/ \E c \in Clients : GoingUp(c, n) \/ ComingDown(c, n))'
               PROVE  n <= bangs'
    BY DEF Numbered
  <2>1. n <= bangs \/ n <= bangs'
    BY DEF Once, Numbered, Lights, NoNews
  <2> QED BY <1>0, <2>1
<1>3. FusesAreNews'
  <2> SUFFICES ASSUME NEW r \in Scenes, NEW n \in Nat, Lit(r, n)'
               PROVE  (/\ \A q \in Scenes : n \notin felt[q] /\ (q # r => ~Lit(q, n))
                       /\ \A c \in Clients : ~GoingUp(c, n) /\ ~ComingDown(c, n))'
    BY DEF FusesAreNews
  <2>1. CASE Lit(r, n)
    <3>1. ~(bangs < n)
      <4>1. n <= bangs
        BY <2>1, Zenon DEF Once, Numbered
      <4> QED BY <1>0, <4>1
    <3> QED BY <2>1, <3>1, Zenon DEF Once, FusesAreNews, Lights, NoNews
  <2>2. CASE ~Lit(r, n)
    <3>1. r = p /\ ~(n <= bangs)
      BY <1>0, <2>2 DEF Lights
    <3>2. /\ \A q \in Scenes : n \notin felt[q] /\ ~Lit(q, n)
          /\ \A c \in Clients : ~GoingUp(c, n) /\ ~ComingDown(c, n)
      BY <3>1, Zenon DEF Once, Numbered
    <3> QED BY <3>1, <3>2, Zenon DEF Lights, NoNews
  <2> QED BY <2>1, <2>2
<1>4. ReportsAreNews'
  BY Zenon DEF Once, ReportsAreNews, NoNews
<1>5. RelaysAreNews'
  BY Zenon DEF Once, RelaysAreNews, NoNews
<1> QED BY <1>1, <1>2, <1>3, <1>4, <1>5 DEF Once

(* The steps in which p feels bang n.                                      *)

\* Other bangs are where they were.
OtherBangsStay(n) ==
  \A d \in Clients, m \in Nat : m # n =>
    /\ (GoingUp(d, m)' => GoingUp(d, m)) /\ (OnceUp(d, m) => OnceUp(d, m)')
    /\ (ComingDown(d, m)' => ComingDown(d, m)) /\ (OnceDown(d, m) => OnceDown(d, m)')

\* Where n is after p has felt it: reported by p, or relayed to others.
Passed(p, n) ==
  /\ \A q \in Scenes : ~Lit(q, n)'
  /\ \A d \in Clients : GoingUp(d, n)' =>
       /\ d = p /\ OnceUp(d, n)' /\ \A q \in Scenes \ {p} : n \notin felt[q]
       /\ \A e \in Clients : ~ComingDown(e, n)'
  /\ \A d \in Clients : ComingDown(d, n)' => d # p /\ n \notin felt[d] /\ OnceDown(d, n)'

LEMMA FeltStep ==
  ASSUME Once, Grounds, NEW o \in Scenes, Lights(o), NEW p \in Scenes, NEW n \in Nat,
         n <= bangs, n \notin felt[p], Feels(p, n), OtherBangsStay(n), Passed(p, n)
  PROVE  Once'
<1>0. bangs \in Nat /\ bangs' \in Nat /\ bangs <= bangs'
  BY DEF Grounds, Lights
<1>1. /\ felt' \in [Scenes -> SUBSET Nat]
      /\ \A q \in Scenes, m \in Nat : m \in felt'[q] <=> m \in felt[q] \/ (q = p /\ m = n)
      /\ again' = again
  BY DEF Feels, Once, Felt
<1>2. Felt'
  BY <1>1 DEF Once, Felt
<1>3. Numbered'
  <2> SUFFICES ASSUME NEW m \in Nat,
                      (\/ \E q \in Scenes : Lit(q, m) \/ m \in felt[q]
                       \/ \E c \in Clients : GoingUp(c, m) \/ ComingDown(c, m))'
               PROVE  m <= bangs'
    BY DEF Numbered
  <2>1. m <= bangs \/ m <= bangs'
    <3>1. CASE m = n
      BY <3>1
    <3>2. CASE m # n
      BY <1>1, <3>2 DEF Once, Numbered, Lights, OtherBangsStay
    <3> QED BY <3>1, <3>2
  <2> QED BY <1>0, <2>1
<1>4. FusesAreNews'
  <2> SUFFICES ASSUME NEW r \in Scenes, NEW m \in Nat, Lit(r, m)'
               PROVE  (/\ \A q \in Scenes : m \notin felt[q] /\ (q # r => ~Lit(q, m))
                       /\ \A c \in Clients : ~GoingUp(c, m) /\ ~ComingDown(c, m))'
    BY DEF FusesAreNews
  <2>0. m # n
    BY DEF Passed
  <2>1. CASE Lit(r, m)
    <3>1. ~(bangs < m)
      <4>1. m <= bangs
        BY <2>1, Zenon DEF Once, Numbered
      <4> QED BY <1>0, <4>1
    <3> QED BY <1>1, <2>0, <2>1, <3>1, Zenon DEF Once, FusesAreNews, Lights, OtherBangsStay
  <2>2. CASE ~Lit(r, m)
    <3>1. r = o /\ ~(m <= bangs)
      BY <1>0, <2>2 DEF Lights
    <3>2. /\ \A q \in Scenes : m \notin felt[q] /\ ~Lit(q, m)
          /\ \A c \in Clients : ~GoingUp(c, m) /\ ~ComingDown(c, m)
      BY <3>1, Zenon DEF Once, Numbered
    <3> QED BY <1>1, <2>0, <3>1, <3>2, Zenon DEF Lights, OtherBangsStay
  <2> QED BY <2>1, <2>2
<1>5. ReportsAreNews'
  <2> SUFFICES ASSUME NEW c \in Clients, NEW m \in Nat, GoingUp(c, m)'
               PROVE  (/\ OnceUp(c, m)
                       /\ \A q \in Scenes \ {c} : m \notin felt[q]
                       /\ \A d \in Clients : ~ComingDown(d, m) /\ (d # c => ~GoingUp(d, m)))'
    BY DEF ReportsAreNews
  <2>1. CASE m = n
    BY <1>1, <2>1, Zenon DEF Passed
  <2>2. CASE m # n
    BY <1>1, <2>2, Zenon DEF Once, ReportsAreNews, OtherBangsStay
  <2> QED BY <2>1, <2>2
<1>6. RelaysAreNews'
  <2> SUFFICES ASSUME NEW c \in Clients, NEW m \in Nat, ComingDown(c, m)'
               PROVE  (m \notin felt[c] /\ OnceDown(c, m))'
    BY DEF RelaysAreNews
  <2>1. CASE m = n
    BY <1>1, <2>1, Apart, Zenon DEF Passed
  <2>2. CASE m # n
    BY <1>1, <2>2, Apart, Zenon DEF Once, RelaysAreNews, OtherBangsStay
  <2> QED BY <2>1, <2>2
<1> QED BY <1>2, <1>3, <1>4, <1>5, <1>6 DEF Once

LEMMA GoOffOnce ==
  ASSUME MeadowShape, Once, NEW p \in Scenes, NEW f \in fuses[p], GoOff(p, f) PROVE Once'
<1> DEFINE n == f.n
           frame == [kind |-> "blast", n |-> f.n, device |-> f.device]
<1>1. n \in Nat /\ frame.n = n /\ frame.kind = "blast" /\ Lit(p, n)
  BY DEF MeadowShape, Grounds, FuseOf, Lit
<1>2. Feels(p, n) /\ Report(p, frame) /\ UNCHANGED present
  BY DEF GoOff
<1>3. frame \in Frame /\ \A m : IsBang(frame, m) <=> m = n
  BY DEF MeadowShape, Grounds, FuseOf, Frame, IsBang
<1>4. Lights(p) /\ ~Lit(p, n)'
  <2>1. Lights(p) /\ \A m \in Nat : Lit(p, m)' => (\E g \in fuses[p] \ {f} : g.n = m) \/ bangs < m
    BY <1>2, GoOffFires, Lighting DEF MeadowShape
  <2>2. \A g \in fuses[p] \ {f} : g.n # n
    BY DEF MeadowShape, Grounds, Dated, Scene
  <2>3. ~(bangs < n)
    BY <1>1 DEF Once, Numbered, MeadowShape, Grounds
  <2> QED BY <1>1, <2>1, <2>2, <2>3
<1>5. n <= bangs
  BY <1>1 DEF Once, Numbered
<1> HIDE DEF n, frame
<1>6. /\ \A q \in Scenes : n \notin felt[q] /\ (q # p => ~Lit(q, n))
      /\ \A c \in Clients : ~GoingUp(c, n) /\ ~ComingDown(c, n)
  BY <1>1, Zenon DEF Once, FusesAreNews
<1>7. \A d \in Clients, m \in Nat :
        /\ GoingUp(d, m)' => GoingUp(d, m) \/ (d = p /\ m = n)
        /\ OnceUp(d, m) /\ m # n => OnceUp(d, m)'
        /\ ~GoingUp(d, m) => OnceUp(d, m)'
  <2>1. CASE p = Authority
    <3>1. up' = up
      BY <1>2, <1>3, <2>1, ReportFits DEF MeadowShape
    <3> QED BY <3>1, Zenon DEF GoingUp, OnceUp
  <2>2. CASE p # Authority
    <3>1. p \in Clients /\ up' = [up EXCEPT ![p] = Append(@, frame)]
      BY <1>2, <1>3, <2>2, ReportFits DEF MeadowShape
    <3>2. \A d \in Clients, m \in Nat :
           /\ GoingUp(d, m)' => GoingUp(d, m) \/ (d = p /\ IsBang(frame, m))
           /\ OnceUp(d, m) /\ ~(d = p /\ IsBang(frame, m)) => OnceUp(d, m)'
           /\ ~GoingUp(d, m) => OnceUp(d, m)'
      BY <3>1, UpGrows DEF MeadowShape
    <3> QED BY <1>3, <3>2, Zenon
  <2> QED BY <2>1, <2>2
<1>8. \A d \in Clients, m \in Nat :
        /\ ComingDown(d, m)' => ComingDown(d, m) \/ (p = Authority /\ m = n)
        /\ OnceDown(d, m) /\ m # n => OnceDown(d, m)'
        /\ ~ComingDown(d, m) => OnceDown(d, m)'
  <2>1. CASE p = Authority /\ ~Dedicated
    <3>1. Relay(Authority, n, f.device)
      BY <2>1 DEF GoOff, n
    <3>2. \A d \in Clients, m \in Nat :
           /\ ComingDown(d, m)' => ComingDown(d, m) \/ (d \in Targets(Authority) /\ m = n)
           /\ OnceDown(d, m) /\ m # n => OnceDown(d, m)'
           /\ ~ComingDown(d, m) => OnceDown(d, m)'
      BY <3>1, DownGrows DEF MeadowShape
    <3> QED BY <2>1, <3>2, Zenon
  <2>2. CASE ~(p = Authority /\ ~Dedicated)
    <3>1. down' = down
      BY <2>2 DEF GoOff
    <3> QED BY <3>1, Zenon DEF ComingDown, OnceDown
  <2> QED BY <2>1, <2>2
<1>9. OtherBangsStay(n)
  BY <1>7, <1>8, Zenon DEF OtherBangsStay
<1>10. \A q \in Scenes : ~Lit(q, n)'
  <2>1. ~(bangs < n)
    BY <1>1, <1>5 DEF MeadowShape, Grounds
  <2> QED BY <1>1, <1>4, <1>6, <2>1, Zenon DEF Lights
<1>11. Passed(p, n)
  BY <1>1, <1>6, <1>7, <1>8, <1>10, Apart, Zenon DEF Passed
<1> QED BY <1>1, <1>2, <1>4, <1>5, <1>6, <1>9, <1>11, FeltStep DEF MeadowShape

LEMMA HearBangOnce ==
  ASSUME MeadowShape, Once, NEW c \in Clients, HearBang(c) PROVE Once'
<1>0. PICK bang, n : bang = Head(up[c]) /\ n = bang.n
  OBVIOUS
<1>1. bang \in Frame /\ bang.kind = "blast" /\ n \in Nat /\ IsBang(bang, n) /\ bang.device \in Device
  <2>1. bang \in Frame /\ bang.kind = "blast"
    BY <1>0, HeadsFit DEF HearBang, MeadowShape
  <2> QED BY <1>0, <2>1 DEF Frame, IsBang
<1>2. up[c] # <<>> /\ up' = [up EXCEPT ![c] = Tail(@)]
  BY DEF HearBang
<1>3. /\ \A d \in Clients, m \in Nat :
           (GoingUp(d, m)' => GoingUp(d, m)) /\ (OnceUp(d, m) => OnceUp(d, m)')
      /\ \A m \in Nat : IsBang(Head(up[c]), m) => GoingUp(c, m) /\ (OnceUp(c, m) => ~GoingUp(c, m)')
  BY <1>2, UpShrinks DEF MeadowShape
<1>4. Lights(Authority)
  BY NothingLit, Apart DEF MeadowShape, HearBang, counters
<1>5. CASE ~Known(bang.device)
  <2>1. UNCHANGED <<felt, again, down>>
    BY <1>0, <1>5 DEF HearBang
  <2>2. NoNews
    BY <1>3, <2>1, Zenon DEF NoNews, ComingDown, OnceDown
  <2> QED BY <1>4, <2>1, <2>2, QuietOnce, Apart DEF MeadowShape
<1>6. CASE Known(bang.device)
  <2>1. Feels(Authority, n) /\ Relay(c, n, bang.device)
    BY <1>0, <1>6 DEF HearBang
  <2>2. GoingUp(c, n) /\ (OnceUp(c, n) => ~GoingUp(c, n)')
    BY <1>0, <1>1, <1>3
  <2>3. UNCHANGED <<fuses, bangs>>
    BY DEF HearBang, counters
  <2>4. /\ OnceUp(c, n)
        /\ \A q \in Scenes \ {c} : n \notin felt[q]
        /\ \A d \in Clients : ~ComingDown(d, n) /\ (d # c => ~GoingUp(d, n))
    BY <1>1, <2>2, Zenon DEF Once, ReportsAreNews
  <2>5. n <= bangs
    BY <1>1, <2>2, Zenon DEF Once, Numbered
  <2>6. \A d \in Clients, m \in Nat :
           /\ ComingDown(d, m)' => ComingDown(d, m) \/ (d \in Targets(c) /\ m = n)
           /\ OnceDown(d, m) /\ m # n => OnceDown(d, m)'
           /\ ~ComingDown(d, m) => OnceDown(d, m)'
    BY <2>1, DownGrows DEF MeadowShape
  <2>7. OtherBangsStay(n)
    BY <1>3, <2>6, Zenon DEF OtherBangsStay
  <2>8. \A q \in Scenes : ~Lit(q, n)'
    BY <1>1, <2>2, <2>3, Zenon DEF Once, FusesAreNews, Lit
  <2>9. c \notin Targets(c) /\ n \notin felt[Authority]
    BY <2>4, Apart DEF Targets
  <2>10. \A d \in Clients : ~GoingUp(d, n)'
    BY <1>1, <1>3, <2>2, <2>4, Zenon
  <2>11. \A d \in Clients :
           ComingDown(d, n)' => d # Authority /\ n \notin felt[d] /\ OnceDown(d, n)'
    BY <1>1, <2>4, <2>6, <2>9, Apart, Zenon
  <2>12. Passed(Authority, n)
    BY <2>8, <2>10, <2>11, Zenon DEF Passed
  <2> QED BY <1>1, <1>4, <2>1, <2>5, <2>7, <2>9, <2>12, FeltStep, Apart DEF MeadowShape
<1> QED BY <1>5, <1>6

LEMMA ApplyBangOnce ==
  ASSUME MeadowShape, Once, NEW c \in Clients, ApplyBang(c) PROVE Once'
<1>1. PICK n : n = Head(down[c]).n
  OBVIOUS
<1>2. down[c] # <<>> /\ down' = [down EXCEPT ![c] = Tail(@)] /\ Feels(c, n)
  BY <1>1 DEF ApplyBang
<1>3. n \in Nat
  BY <1>1, <1>2, HeadsFit DEF MeadowShape, BangOf
<1>4. /\ \A d \in Clients, m \in Nat :
           (ComingDown(d, m)' => ComingDown(d, m)) /\ (OnceDown(d, m) => OnceDown(d, m)')
      /\ ComingDown(c, n) /\ (OnceDown(c, n) => ~ComingDown(c, n)')
  BY <1>1, <1>2, <1>3, DownShrinks DEF MeadowShape
<1>5. n \notin felt[c] /\ OnceDown(c, n) /\ n <= bangs
  BY <1>3, <1>4, Zenon DEF Once, RelaysAreNews, Numbered
<1>6. UNCHANGED <<fuses, bangs, up>>
  BY DEF ApplyBang, counters
<1>7. Lights(c)
  BY <1>6, NothingLit, Apart DEF MeadowShape
<1>8. OtherBangsStay(n)
  BY <1>4, <1>6, Zenon DEF OtherBangsStay, GoingUp, OnceUp
<1>9. \A q \in Scenes : ~Lit(q, n)'
  BY <1>3, <1>4, <1>6, Zenon DEF Once, FusesAreNews, Lit
<1>10. \A d \in Clients : ~GoingUp(d, n)'
  <2>1. \A d \in Clients : ~GoingUp(d, n)
    BY <1>3, <1>4, Zenon DEF Once, ReportsAreNews
  <2> QED BY <1>6, <2>1, Zenon DEF GoingUp
<1>11. \A d \in Clients : ComingDown(d, n)' => d # c /\ n \notin felt[d] /\ OnceDown(d, n)'
  BY <1>3, <1>4, <1>5, Zenon DEF Once, RelaysAreNews
<1>12. Passed(c, n)
  BY <1>9, <1>10, <1>11, Zenon DEF Passed
<1> QED BY <1>2, <1>3, <1>5, <1>7, <1>8, <1>12, FeltStep, Apart DEF MeadowShape

LEMMA GrazeOnce ==
  ASSUME MeadowShape, Once, NEW p \in Scenes, NEW t \in Tufts, Graze(p, t) PROVE Once'
<1> DEFINE frame == [kind |-> "consume", cell |-> t]
<1>1. frame \in Frame /\ \A m : ~IsBang(frame, m)
  BY DEF Frame, IsBang
<1>2. Report(p, frame) /\ UNCHANGED <<present, down, felt, again>>
  BY DEF Graze, history
<1> HIDE DEF frame
<1>3. Lights(p)
  BY <1>2, GrazeFires, Lighting DEF MeadowShape
<1>4. \A d \in Clients, m \in Nat :
        (GoingUp(d, m)' => GoingUp(d, m)) /\ (OnceUp(d, m) => OnceUp(d, m)')
  <2>1. CASE p = Authority
    <3>1. up' = up
      BY <1>1, <1>2, <2>1, ReportFits DEF MeadowShape
    <3> QED BY <3>1, Zenon DEF GoingUp, OnceUp
  <2>2. CASE p # Authority
    <3>1. p \in Clients /\ up' = [up EXCEPT ![p] = Append(@, frame)]
      BY <1>1, <1>2, <2>2, ReportFits DEF MeadowShape
    <3>2. \A d \in Clients, m \in Nat :
           /\ GoingUp(d, m)' => GoingUp(d, m) \/ (d = p /\ IsBang(frame, m))
           /\ OnceUp(d, m) /\ ~(d = p /\ IsBang(frame, m)) => OnceUp(d, m)'
      BY <3>1, UpGrows DEF MeadowShape
    <3> QED BY <1>1, <3>2, Zenon
  <2> QED BY <2>1, <2>2
<1>5. NoNews
  BY <1>2, <1>4, Zenon DEF NoNews, ComingDown, OnceDown
<1> QED BY <1>2, <1>3, <1>5, QuietOnce DEF MeadowShape

LEMMA StepOnOnce ==
  ASSUME MeadowShape, Once, NEW p \in Scenes, NEW d \in Device, StepOn(p, d) PROVE Once'
<1>1. UNCHANGED <<present, up, down, felt, again>>
  BY DEF StepOn, history
<1>2. Lights(p)
  BY <1>1, StepOnFires, Lighting DEF MeadowShape
<1>3. NoNews
  BY <1>1, Zenon DEF NoNews, GoingUp, OnceUp, ComingDown, OnceDown
<1> QED BY <1>1, <1>2, <1>3, QuietOnce DEF MeadowShape

\* A frame is taken off a queue, and no bang is felt.
LEMMA TakenOnce ==
  ASSUME MeadowShape, Once, NEW c \in Clients, up[c] # <<>>, up' = [up EXCEPT ![c] = Tail(@)],
         UNCHANGED <<fuses, bangs, down, felt, again>>
  PROVE  Once'
<1>1. \A d \in Clients, n \in Nat :
        (GoingUp(d, n)' => GoingUp(d, n)) /\ (OnceUp(d, n) => OnceUp(d, n)')
  BY UpShrinks DEF MeadowShape
<1>2. NoNews
  BY <1>1, Zenon DEF NoNews, ComingDown, OnceDown
<1>3. Lights(Authority)
  BY NothingLit, Apart DEF MeadowShape
<1> QED BY <1>2, <1>3, QuietOnce, Apart DEF MeadowShape

LEMMA StillOnce ==
  ASSUME MeadowShape, Once, UNCHANGED <<fuses, bangs, up, down, felt, again>>
  PROVE  Once'
<1>1. NoNews
  BY Zenon DEF NoNews, GoingUp, OnceUp, ComingDown, OnceDown
<1>2. Lights(Authority)
  BY NothingLit, Apart DEF MeadowShape
<1> QED BY <1>1, <1>2, QuietOnce, Apart DEF MeadowShape

LEMMA OnceStep ==
  ASSUME MeadowShape, Once, [MeadowNext]_meadowVars PROVE Once'
<1>1. CASE UNCHANGED meadowVars
  BY <1>1, StillOnce DEF meadowVars, history, counters
<1>2. ASSUME NEW p \in Scenes, NEW t \in Tufts, Graze(p, t) PROVE Once'
  BY <1>2, GrazeOnce
<1>3. ASSUME NEW p \in Scenes, NEW d \in Device, StepOn(p, d) PROVE Once'
  BY <1>3, StepOnOnce
<1>4. ASSUME NEW p \in Scenes, NEW f \in fuses[p], GoOff(p, f) PROVE Once'
  BY <1>4, GoOffOnce
<1>5. ASSUME NEW c \in Clients, HearBite(c) \/ DropReport(c) PROVE Once'
  <2>1. /\ up[c] # <<>> /\ up' = [up EXCEPT ![c] = Tail(@)]
        /\ UNCHANGED <<fuses, bangs, down, felt, again>>
    BY <1>5 DEF HearBite, DropReport, history, counters
  <2> QED BY <2>1, TakenOnce
<1>6. ASSUME NEW c \in Clients, HearBang(c) PROVE Once'
  BY <1>6, HearBangOnce
<1>7. ASSUME NEW c \in Clients, ApplyBang(c) PROVE Once'
  BY <1>7, ApplyBangOnce
<1>8. ASSUME NEW c \in Clients, Join(c) PROVE Once'
  BY <1>8, StillOnce DEF Join, history, counters
<1>9. CASE Publish
  BY <1>9, StillOnce DEF Publish, history, counters
<1>10. ASSUME NEW c \in Clients, NEW s \in aloft[c], Mirror(c, s) PROVE Once'
  BY <1>10, StillOnce DEF Mirror, history, counters
<1>11. ASSUME NEW t \in Tufts, Regrow(t) PROVE Once'
  BY <1>11, StillOnce DEF Regrow, history
<1>12. ASSUME NEW x \in Cells, Heal(x) PROVE Once'
  BY <1>12, StillOnce DEF Heal, history
<1> QED BY <1>1, <1>2, <1>3, <1>4, <1>5, <1>6, <1>7, <1>8, <1>9, <1>10, <1>11, <1>12
        DEF MeadowNext

LEMMA StartsOnce == MeadowInit => Once
<1> SUFFICES ASSUME MeadowInit PROVE Once
  OBVIOUS
<1>1. /\ \A p \in Scenes : fuses[p] = {} /\ felt[p] = {}
      /\ \A c \in Clients : up[c] = <<>> /\ down[c] = <<>>
      /\ Felt
  BY Apart DEF MeadowInit, Felt
<1>2. DOMAIN <<>> = {}
  OBVIOUS
<1>3. /\ \A p \in Scenes, n \in Nat : ~Lit(p, n) /\ n \notin felt[p]
      /\ \A c \in Clients, n \in Nat : ~GoingUp(c, n) /\ ~ComingDown(c, n)
  BY <1>1, <1>2, Zenon DEF Lit, GoingUp, ComingDown
<1> QED BY <1>1, <1>3, Zenon DEF Once, Numbered, FusesAreNews, ReportsAreNews, RelaysAreNews

(* No goat feels a bang twice, whatever the order in which frames and      *)
(* relays are read: a bang is on one fuse, or in one report, or felt and   *)
(* on its way to those who have not felt it (lib.rs relay, net.js).        *)
THEOREM NobodyEverFeelsItTwice == MeadowSpec => []NobodyFeelsItTwice
<1>1. MeadowShape /\ Once /\ [MeadowNext]_meadowVars => Once'
  BY OnceStep
<1>2. Once => NobodyFeelsItTwice
  BY DEF Once, Felt, NobodyFeelsItTwice
<1> QED BY <1>1, <1>2, StartsOnce, ShapeHolds, PTL DEF MeadowSpec

=============================================================================
