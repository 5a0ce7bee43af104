-------------------------- MODULE ForwardRateLimiter --------------------------
(***************************************************************************)
(* The rate limiter of FORWARD packets of the v0.1 node                    *)
(* (modules/wire/forward_rate_limit.mjs): three sliding windows, per       *)
(* ephemeral source key, per next hop and over all, kept as lists of the   *)
(* times of accepted requests.  A list is trimmed when a request looks at  *)
(* it; a source or destination that never comes back keeps its list.       *)
(***************************************************************************)
EXTENDS Naturals, Sequences, FiniteSets, SequencesExt

CONSTANTS Sources, Destinations,
          PerSource, PerDestination, Global, \* the three limits
          Window,      \* seconds
          MaxForwards  \* requests

ASSUME LimiterAssumption ==
    {PerSource, PerDestination, Global, Window, MaxForwards} \subseteq Nat

VARIABLE limiter  \* the lists, the clock, and what was asked and answered

\* evict: the lists are in order of time, so dropping from the head while it is
\* at or below the cutoff leaves the younger times.
evictTimes(times, now) == SelectSeq(times, LAMBDA t : t + Window > now)

\* checkAndCount: the two buckets and the global list are trimmed, then the
\* three limits are looked at, and an accepted request is counted in all three.
checkAndCount(s, d, dt) ==
    LET now  == limiter.now + dt
        src  == evictTimes(limiter.source[s], now)
        dst  == evictTimes(limiter.dest[d], now)
        all  == evictTimes(limiter.all, now)
        ok   == Len(src) < PerSource /\ Len(dst) < PerDestination /\ Len(all) < Global
        counted(times) == IF ok THEN Append(times, now) ELSE times
    IN  limiter' = [now |-> now,
                    source |-> [limiter.source EXCEPT ![s] = counted(src)],
                    dest |-> [limiter.dest EXCEPT ![d] = counted(dst)],
                    all |-> counted(all),
                    asked |-> Append(limiter.asked, [src |-> s, dst |-> d, at |-> now, ok |-> ok])]

LimiterInit ==
    limiter = [now |-> 0, source |-> [k \in Sources |-> <<>>], dest |-> [k \in Destinations |-> <<>>],
               all |-> <<>>, asked |-> <<>>]

LimiterNext ==
    /\ Len(limiter.asked) < MaxForwards
    /\ \E s \in Sources, d \in Destinations, dt \in {0, 1, Window} : checkAndCount(s, d, dt)

\* The limits hold and nothing is refused without need: the last request was
\* accepted just when each of the three counts of accepted requests less than
\* one window before it was below its limit.  What was refused counts for
\* nothing, and trimming lists only when they are looked at loses and invents
\* nothing.
WindowsExact ==
    limiter.asked # <<>> =>
        LET a == limiter.asked
            n == Len(a)
            recent == {j \in 1..(n - 1) : a[j].ok /\ a[j].at + Window > a[n].at}
        IN  a[n].ok <=>
                /\ Cardinality({j \in recent : a[j].src = a[n].src}) < PerSource
                /\ Cardinality({j \in recent : a[j].dst = a[n].dst}) < PerDestination
                /\ Cardinality(recent) < Global
=============================================================================
