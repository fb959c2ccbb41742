----------------------------- MODULE RateLimiter -----------------------------
(***************************************************************************)
(* RateLimiterService and rate-limit-check.lua.  A call computes its       *)
(* window from the clock of its instance and then runs the script, at any  *)
(* later time: the counters of a window are keys that expire a fixed time  *)
(* after they were created.                                                *)
(***************************************************************************)
EXTENDS Naturals, FiniteSets, FiniteSetsExt, Functions

CONSTANTS
  Groups,
  Calls,       \* calls of checkRateLimit, one for each admission
  CallGroup,   \* call -> its groupId
  GlobalRps,   \* config.backpressure.globalRps
  Window,      \* config.backpressure.rateLimitWindowSec
  Ttl,         \* config.backpressure.rateLimitKeyTtlSec
  MaxNow       \* bound: the clock

VARIABLES
  now,
  activeGroups, \* the set active-groups
  globalKey,    \* window -> rate-limit:global:{window}
  groupKey,     \* group -> window -> rate-limit:{group}:{window}
  asked,        \* call -> when it read the clock
  verdict,      \* call -> "new", "asked", "allowed" or "limited"
  slowest       \* history: the longest time from the clock to the script

limiterVars == <<activeGroups, globalKey, groupKey, asked, verdict, slowest>>

Windows == 0..(MaxNow \div Window)

NoKey == [count |-> 0, expires |-> 0]

LimiterInit ==
  /\ activeGroups = {}
  /\ globalKey = [w \in Windows |-> NoKey]
  /\ groupKey = [g \in Groups |-> [w \in Windows |-> NoKey]]
  /\ asked = [c \in Calls |-> 0]
  /\ verdict = [c \in Calls |-> "new"]
  /\ slowest = 0

Alive(key) == now < key.expires

Value(key) == IF Alive(key) THEN key.count ELSE 0

\* Mutant of Expiry: the keys live as long as the window.
ExpiryOfWindow == now + Window

Expiry == now + Ttl

\* INCR, and EXPIRE when it has created the key or found it at zero.
Incr(key) ==
  IF Value(key) = 0 THEN [count |-> 1, expires |-> Expiry] ELSE [key EXCEPT !.count = @ + 1]

Decr(key) == [key EXCEPT !.count = @ - 1]

\* max(1, floor(globalRps / max(1, active))), in the script and in getStatus.
Share(active) == Max({1, GlobalRps \div Max({1, active})})

\* currentWindow.
WindowOf(time) == time \div Window

\* checkRateLimit: the window is fixed here.
Ask(c) ==
  /\ verdict[c] = "new"
  /\ asked' = [asked EXCEPT ![c] = now]
  /\ verdict' = [verdict EXCEPT ![c] = "asked"]
  /\ UNCHANGED <<activeGroups, globalKey, groupKey, slowest>>

\* Mutant of AfterGroupLimit: the global counter is not taken back.
GroupCounterOnly(key) == Incr(key)

\* The global counter of a call that its group's share refuses: INCR and DECR.
AfterGroupLimit(key) == Decr(Incr(key))

\* rate-limit-check.lua.
Check(c) ==
  LET g == CallGroup[c]
      w == WindowOf(asked[c])
      limit == Share(Cardinality(activeGroups'))
  IN /\ verdict[c] = "asked"
     /\ activeGroups' = activeGroups \cup {g}
     /\ slowest' = Max({slowest, now - asked[c]})
     /\ IF Incr(globalKey[w]).count > GlobalRps
          THEN verdict' = [verdict EXCEPT ![c] = "limited"] /\ UNCHANGED <<globalKey, groupKey>>
        ELSE IF Incr(groupKey[g][w]).count > limit
          THEN /\ verdict' = [verdict EXCEPT ![c] = "limited"]
               /\ globalKey' = [globalKey EXCEPT ![w] = AfterGroupLimit(@)]
               /\ UNCHANGED groupKey
          ELSE /\ verdict' = [verdict EXCEPT ![c] = "allowed"]
               /\ globalKey' = [globalKey EXCEPT ![w] = Incr(@)]
               /\ groupKey' = [groupKey EXCEPT ![g][w] = Incr(@)]
     /\ UNCHANGED asked

\* getStatus, when its reads see the same moment.
Status(g) ==
  LET w == WindowOf(now)
      active == Cardinality(activeGroups)
  IN [globalCount |-> Value(globalKey[w]), globalLimit |-> GlobalRps,
      groupCount |-> Value(groupKey[g][w]), perGroupLimit |-> Share(active),
      activeGroupCount |-> active]

-----------------------------------------------------------------------------
Keys == [count : Nat, expires : Nat]

LimiterTypeOK ==
  /\ now \in 0..MaxNow /\ slowest \in 0..MaxNow
  /\ activeGroups \subseteq Groups
  /\ globalKey \in [Windows -> Keys] /\ groupKey \in [Groups -> [Windows -> Keys]]
  /\ asked \in [Calls -> 0..MaxNow]
  /\ verdict \in [Calls -> {"new", "asked", "allowed", "limited"}]

AllowedIn(w) == {c \in Calls : verdict[c] = "allowed" /\ asked[c] \div Window = w}

\* The calls that were never late enough to find their window's keys expired.
Timely == slowest <= Ttl - Window

\* As long as no call is later than the time that the keys outlive their
\* window, no more calls are allowed in a window than the global rate: nothing
\* that expires, is rolled back or is refused lets one more in.
RateKept == Timely => \A w \in Windows : Cardinality(AllowedIn(w)) <= GlobalRps

\* getStatus never shows a global count above the global limit, however late the
\* calls are: what the script counts too much it takes back before it returns.
StatusWithinLimit == \A g \in Groups : Status(g).globalCount <= Status(g).globalLimit

\* Under the same condition as RateKept the global counter of a window is the sum
\* of its groups' counters: a call refused by its group's share is taken back from
\* both.
CountersAgree ==
  Timely => \A w \in Windows :
    Alive(globalKey[w]) =>
      Value(globalKey[w]) = SumFunction([g \in Groups |-> Value(groupKey[g][w])])
=============================================================================
