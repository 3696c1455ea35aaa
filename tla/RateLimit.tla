----------------------------- MODULE RateLimit -----------------------------
(***************************************************************************)
(* `within_burst` of crates/session/src/lib.rs, which counts chat lines,   *)
(* bites, blasts and voice packets, each with limits of its own: a peer    *)
(* may send Burst messages, counted from the first one after the last      *)
(* count ran out, and is then refused until Window has passed.             *)
(*                                                                         *)
(* The meter of one peer from the moment its handler serves it; the clock  *)
(* counts from there, in ticks.                                            *)
(***************************************************************************)
EXTENDS Naturals, Sequences

CONSTANTS
  Burst,     \* CHAT_BURST and the like
  Window,    \* CHAT_WINDOW and the like, in ticks
  MaxTime,   \* bound: how long the clock runs
  MaxCount   \* bound: how many messages are sent while one count lasts

ASSUME LimitAssumption ==
  /\ Burst \in Nat \ {0}
  /\ Window \in Nat \ {0}

VARIABLES
  now,     \* Instant::now()
  window,  \* when the current count began
  count,   \* how many messages were counted since
  passed   \* history: when the messages that got through were read

vars == <<now, window, count, passed>>

-----------------------------------------------------------------------------

Init ==
  /\ now = 0
  /\ window = 0
  /\ count = 0
  /\ passed = << >>

Tick ==
  /\ now < MaxTime
  /\ now' = now + 1
  /\ UNCHANGED <<window, count, passed>>

\* Faulty variant: a message too many also begins the wait anew.
CountAnew ==
  IF now - window >= Window \/ count >= Burst
  THEN window' = now /\ count' = IF now - window >= Window THEN 1 ELSE count + 1
  ELSE window' = window /\ count' = count + 1

\* One more message, in a count of its own if the last one ran out.
Count ==
  IF now - window >= Window
  THEN window' = now /\ count' = 1
  ELSE window' = window /\ count' = count + 1

\* Faulty variant: one too many gets through.
AlmostWithinBurst == count' <= Burst + 1

WithinBurst == count' <= Burst

Pass ==
  /\ Count
  /\ WithinBurst
  /\ passed' = Append(passed, now)
  /\ UNCHANGED now

\* The caller answers "slow down", or drops the message without a word.
Refuse ==
  /\ count < MaxCount
  /\ Count
  /\ ~WithinBurst
  /\ UNCHANGED <<now, passed>>

Next == Tick \/ Pass \/ Refuse

Spec == Init /\ [][Next]_vars

-----------------------------------------------------------------------------
(* Properties. *)

\* Types, and a count that began in the past.
TypeOK ==
  /\ now \in Nat
  /\ window \in Nat
  /\ window <= now
  /\ count \in Nat
  /\ passed \in Seq(Nat)

\* However a peer spreads its messages, at most two bursts get through in less
\* than a window: the rest of one count and the whole of the next.
AtMostTwoBursts ==
  \A i \in DOMAIN passed :
    i > 2 * Burst => passed[i] - passed[i - 2 * Burst] >= Window

\* Nobody is refused who has not got a whole burst through within the last
\* window, so a peer that waits for a window is heard again.
RefusalsAreEarned ==
  [][count' # count /\ count' > Burst =>
       /\ Len(passed) >= Burst
       /\ now - passed[Len(passed) - Burst + 1] < Window]_vars

=============================================================================
