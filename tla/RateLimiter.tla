----------------------------- MODULE RateLimiter -----------------------------
(***************************************************************************)
(* The token bucket of one peer (src/rate_limit.rs); the buckets of other  *)
(* peers are independent.  Time is counted in units in which the refill is *)
(* a whole number of tokens.  A bucket is created full when it is first    *)
(* asked for, and cleanup() forgets the buckets that have been idle.       *)
(***************************************************************************)
EXTENDS Integers, FiniteSets, Functions

CONSTANTS
  Burst,    \* BURST_SIZE
  Refill,   \* REFILL_RATE_PER_SEC, in tokens per unit of time
  Idle,     \* the 60 seconds of cleanup(), in units of time
  EndTime,  \* bound on the time
  MaxCalls  \* bound on the messages in one unit of time

(* The constants of the code: 500 tokens, refilled in two seconds. *)
ASSUME RateLimiterAssumption ==
  /\ Burst \in Nat \ {0} /\ Refill \in Nat \ {0}
  /\ Idle \in Nat /\ EndTime \in Nat /\ MaxCalls \in Nat
  /\ Idle * Refill >= Burst

VARIABLES
  clock,    \* Instant::now()
  bucket,   \* the TokenBucket of the peer, or NoBucket
  dropped,  \* dropped_count of the peer
  allowed,  \* history variable: messages allowed at each time
  calls     \* messages that arrived at this time (a bound)

rlVars == <<clock, bucket, dropped, allowed, calls>>

Bucket == [tokens : 0..Burst, refilled : 0..EndTime]

NoBucket == [tokens |-> Burst, refilled |-> -1]

RLTypeOK ==
  /\ clock \in 0..EndTime
  /\ bucket \in Bucket \cup {NoBucket}
  /\ dropped \in Nat
  /\ allowed \in [0..EndTime -> Nat]
  /\ calls \in 0..MaxCalls

RLInit ==
  /\ clock = 0 /\ bucket = NoBucket /\ dropped = 0
  /\ allowed = [t \in 0..EndTime |-> 0]
  /\ calls = 0

Pass ==
  /\ clock < EndTime
  /\ clock' = clock + 1
  /\ calls' = 0
  /\ UNCHANGED <<bucket, dropped, allowed>>

Least(m, n) == IF m < n THEN m ELSE n

(* TokenBucket::new, then TokenBucket::refill *)
Refilled ==
  IF bucket = NoBucket THEN Burst
  ELSE Least(bucket.tokens + (clock - bucket.refilled) * Refill, Burst)

(* RateLimiter::check: a message that finds no token is dropped. *)
Check ==
  /\ calls < MaxCalls
  /\ calls' = calls + 1
  /\ IF Refilled >= 1
     THEN /\ bucket' = [tokens |-> Refilled - 1, refilled |-> clock]
          /\ allowed' = [allowed EXCEPT ![clock] = @ + 1]
          /\ UNCHANGED dropped
     ELSE /\ bucket' = [tokens |-> Refilled, refilled |-> clock]
          /\ dropped' = dropped + 1
          /\ UNCHANGED allowed
  /\ UNCHANGED clock

IsRecentlyFull(b) == b.refilled > clock - Idle /\ b.tokens > 0   \* mutant

(* cleanup() keeps the buckets refilled after the cutoff. *)
IsRecent(b) == b.refilled > clock - Idle

Cleanup ==
  /\ bucket # NoBucket
  /\ bucket' = IF IsRecent(bucket) THEN bucket ELSE NoBucket
  /\ UNCHANGED <<clock, dropped, allowed, calls>>

RLNext == Pass \/ Check \/ Cleanup

RLSpec == RLInit /\ [][RLNext]_rlVars

-----------------------------------------------------------------------------
(* In every interval of time the peer gets at most a burst plus what is    *)
(* refilled meanwhile: forgetting an idle bucket, which is then created    *)
(* full again, never grants more.                                          *)
RateHolds ==
  \A s \in 0..clock :
    \A t \in s..clock :
      SumFunctionOnSet(allowed, s..t) <= Burst + (t - s) * Refill

=============================================================================
