--------------------------- MODULE RedisSortedSet ---------------------------
(***************************************************************************)
(* A Redis sorted set, as the services use it through RedisSortedSet.ts    *)
(* and the Lua scripts: a function from the members to their scores.       *)
(***************************************************************************)
EXTENDS Integers, Functions

EmptyZSet == [x \in {} |-> 0]

\* ZADD: a member that is already there keeps its place and gets a new score.
ZAdd(zset, member, score) ==
  [x \in DOMAIN zset \cup {member} |-> IF x = member THEN score ELSE zset[x]]

\* ZREM of several members; those that are absent are ignored.
ZRem(zset, members) == Restrict(zset, DOMAIN zset \ members)

\* ZRANGEBYSCORE -inf limit: the members that are due.
ZDue(zset, limit) == {x \in DOMAIN zset : zset[x] <= limit}
=============================================================================
