-------------------------------- MODULE Pace --------------------------------
(***************************************************************************)
(* How fast a crawl fetches from one host (HostLimiter and _TokenBucket in *)
(* src/audit/crawler/rate_limit.py): a semaphore bounds the fetches under  *)
(* way, and a bucket of tokens, one per fetch, their pace.  A fetch that   *)
(* finds no token sleeps as long as one needs to regenerate, and looks     *)
(* again; another fetch may have taken it by then.                         *)
(*                                                                         *)
(* Time goes in ticks and the bucket is measured in them: a token is the   *)
(* Cost ticks in which it regenerates.  The semaphore and the lock of the  *)
(* bucket are fair in asyncio; here any waiter may be next.                *)
(*                                                                         *)
(* RefillUncapped is wrong on purpose: a slip of the definition it         *)
(* precedes, kept to show that the property notices it.                    *)
(***************************************************************************)
EXTENDS Integers, Sequences, FiniteSets

CONSTANTS
  Fetcher,   \* the workers that fetch from the host
  Slots,     \* concurrency_per_host
  Burst,     \* the bucket's capacity in tokens: max(rps, 1)
  Cost,      \* the ticks a token takes to regenerate: 1 / rps
  MaxClock,  \* bound on the clock
  MaxTaken   \* bound on the tokens taken

ASSUME PaceAssumption ==
  /\ IsFiniteSet(Fetcher) /\ {Slots, Burst, Cost} \subseteq Nat \ {0}
  /\ {MaxClock, MaxTaken} \subseteq Nat

VARIABLES
  clock,   \* time.monotonic()
  tokens,  \* _tokens, in ticks
  last,    \* _last
  stand,   \* where each fetch is
  wakeAt,  \* when a sleeping one looks again
  taken    \* when each token was taken, in order

paceVars == <<clock, tokens, last, stand, wakeAt, taken>>

Capacity == Burst * Cost
Stand == {"away", "taking", "asleep", "fetching"}

PaceTypeOK ==
  /\ clock \in 0..MaxClock /\ tokens \in 0..Capacity /\ last \in 0..clock
  /\ stand \in [Fetcher -> Stand] /\ wakeAt \in [Fetcher -> Nat]
  /\ taken \in Seq(0..clock) /\ Len(taken) <= MaxTaken

PaceInit ==
  /\ clock = 0 /\ tokens = Capacity /\ last = 0
  /\ stand = [f \in Fetcher |-> "away"] /\ wakeAt = [f \in Fetcher |-> 0]
  /\ taken = <<>>

-----------------------------------------------------------------------------
PaceMin(x, y) == IF x <= y THEN x ELSE y

\* async with sem: a fetch under the throttle.
Throttled == {f \in Fetcher : stand[f] # "away"}

Admit(f) ==
  /\ stand[f] = "away" /\ Cardinality(Throttled) < Slots
  /\ stand' = [stand EXCEPT ![f] = "taking"]
  /\ UNCHANGED <<clock, tokens, last, wakeAt, taken>>

RefillUncapped(elapsed) == tokens + elapsed
Refill(elapsed) == PaceMin(Capacity, tokens + elapsed)

\* take, one turn of its loop under the lock.
Take(f) ==
  /\ stand[f] = "taking" /\ Len(taken) < MaxTaken
  /\ LET full == Refill(clock - last)
     IN /\ last' = clock
        /\ IF full >= Cost
             THEN /\ tokens' = full - Cost /\ taken' = Append(taken, clock)
                  /\ stand' = [stand EXCEPT ![f] = "fetching"] /\ UNCHANGED wakeAt
             ELSE /\ tokens' = full /\ UNCHANGED taken
                  /\ stand' = [stand EXCEPT ![f] = "asleep"]
                  /\ wakeAt' = [wakeAt EXCEPT ![f] = clock + Cost - full]
  /\ UNCHANGED clock

Wake(f) ==
  /\ stand[f] = "asleep" /\ clock >= wakeAt[f]
  /\ stand' = [stand EXCEPT ![f] = "taking"] /\ wakeAt' = [wakeAt EXCEPT ![f] = 0]
  /\ UNCHANGED <<clock, tokens, last, taken>>

\* The fetch ends, or it is cancelled while it waits.
Release(f) ==
  /\ stand[f] \in {"fetching", "asleep"}
  /\ stand' = [stand EXCEPT ![f] = "away"] /\ wakeAt' = [wakeAt EXCEPT ![f] = 0]
  /\ UNCHANGED <<clock, tokens, last, taken>>

Tick ==
  /\ clock < MaxClock /\ clock' = clock + 1
  /\ UNCHANGED <<tokens, last, stand, wakeAt, taken>>

PaceNext ==
  \/ Tick \/ \E f \in Fetcher : Admit(f) \/ Take(f) \/ Wake(f) \/ Release(f)

PaceSpec == PaceInit /\ [][PaceNext]_paceVars

-----------------------------------------------------------------------------
(* Properties *)

\* In no stretch of time does the host see more fetches begin than a full
\* bucket and what regenerates meanwhile allow, however many wait
\* (rate_limit._TokenBucket.take).
PaceKept ==
  \A i, j \in 1..Len(taken) : i <= j => (j - i + 1) * Cost <= Capacity + taken[j] - taken[i]

\* Nor more than concurrency_per_host at a time (HostLimiter.throttle).
SlotsKept == Cardinality(Throttled) <= Slots

\* What HostLimiter promises a host.
HostIsSpared == PaceTypeOK /\ PaceKept /\ SlotsKept
=============================================================================
