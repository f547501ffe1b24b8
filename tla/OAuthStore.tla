----------------------------- MODULE OAuthStore -----------------------------
(***************************************************************************)
(* The key/value store of the MCP authorization server                     *)
(* (apps/mcp-server/src/oauth/store.ts and dynamodb-store.ts), reduced to  *)
(* what its callers can tell apart: an item is a value with an expiry, the *)
(* expiry is a whole second, and an item past its expiry reads as absent   *)
(* although DynamoDB may still hold it.                                    *)
(*                                                                         *)
(* Time is counted in ticks.  TicksPerSecond > 1 makes the rounding to     *)
(* seconds visible: with 2, an instant is either a whole second or halfway *)
(* between two of them.                                                    *)
(***************************************************************************)
EXTENDS Integers

CONSTANTS
  TicksPerSecond,
  Null            \* what get returns for an absent key

ASSUME TicksAssumption == TicksPerSecond \in Nat \ {0}

\* Math.floor(t / 1000) and Math.ceil(t / 1000), as instants.
FloorSecond(t) == t - (t % TicksPerSecond)
CeilSecond(t) == FloorSecond(t + (TicksPerSecond - 1))

\* encode: the ttl attribute an item written at `now` for `seconds` carries.
TtlOf(now, seconds) == CeilSecond(now + seconds)

\* decode: an item is readable while its ttl lies in the future.
Readable(ttl, now) == ttl > now
Visible(item, now) == item # Null /\ Readable(item.ttl, now)

\* take: the ttl left behind, 0 for an item that is gone.  The slip reads the
\* item without deleting it.
AfterGet(ttl) == ttl
AfterTake(ttl) == 0

\* replace: the condition of the conditional PutItem.  It compares the stored
\* value only; the ttl attribute is not part of it.  The slips: a condition
\* that any stored item meets, and one that an absent item meets too.
ReplaceableIfPresent(item, expected) == item # Null
ReplaceableIfAbsentToo(item, expected) == item = Null \/ item.value = expected
Replaceable(item, expected) == item # Null /\ item.value = expected
=============================================================================
