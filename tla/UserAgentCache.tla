---------------------------- MODULE UserAgentCache ----------------------------
(***************************************************************************)
(* The LRU cache of parsed user agents (useragent.py), read by requests on *)
(* the event loop and by the threads that parse, and the slots that bound  *)
(* these threads (concurrency.py).                                         *)
(*                                                                         *)
(* A request looks its user agent up on the loop; on a miss it takes a     *)
(* slot, or waits for one in line, and a thread looks it up again, parses  *)
(* it and stores the result.  Threads take the cache's lock for a look-up  *)
(* and for a store, so several may parse the same agent at a time.  A      *)
(* parsed agent is named after the request whose thread made it.           *)
(***************************************************************************)
EXTENDS Integers, Sequences, FiniteSets

CONSTANTS
  Requests,
  Agents,    \* user-agent strings
  NoObject,  \* stands for no parsed agent
  Slots,     \* performance.cpu_task_concurrency
  Sizes      \* the values of performance.user_agent_cache_size, 0 to disable

ASSUME CacheAssumption ==
  /\ IsFiniteSet(Requests)
  /\ NoObject \notin Requests
  /\ Slots \in Nat \ {0}
  /\ Sizes \subseteq Nat

VARIABLES
  size,     \* USER_AGENT_CACHE_SIZE
  agentOf,  \* the user agent each request sends
  cache,    \* <<agent, object>> pairs, least recently used first
  free,     \* the semaphore's value
  waiting,  \* requests waiting for a slot, in line
  pc,       \* where each request is
  object    \* the parsed agent each request has

agentVars == <<size, agentOf, cache, free, waiting, object>>

Places == {"new", "waiting", "thread", "parsing", "parsed", "raised", "ready", "failed"}

Entries == Agents \X Requests

\* Requests between taking a slot and giving it back.
Holding == {r \in Requests : pc[r] \in {"thread", "parsing", "parsed", "raised"}}

CacheInit ==
  /\ size \in Sizes
  /\ agentOf \in [Requests -> Agents]
  /\ cache = <<>>
  /\ free = Slots
  /\ waiting = <<>>
  /\ pc = [r \in Requests |-> "new"]
  /\ object = [r \in Requests |-> NoObject]

-----------------------------------------------------------------------------
(***************************************************************************)
(* The cache.                                                              *)
(***************************************************************************)

Position(agent) == {i \in 1..Len(cache) : cache[i][1] = agent}

Removing(i) == SubSeq(cache, 1, i - 1) \o SubSeq(cache, i + 1, Len(cache))

\* _get_cached_agent: a hit makes the entry the most recently used one.
Hit(agent, found) ==
  /\ size > 0
  /\ \E i \in Position(agent) :
       /\ found = cache[i][2]
       /\ cache' = Append(Removing(i), cache[i])

Miss(agent) == size = 0 \/ Position(agent) = {}

Evicted(entries) == IF Len(entries) > size THEN Tail(entries) ELSE entries

\* Mutation of StoreCached: the last one to store wins.
StoreLast(agent, parsed, kept) ==
  /\ kept = parsed
  /\ IF size = 0 THEN UNCHANGED cache
     ELSE IF Position(agent) = {} THEN cache' = Evicted(Append(cache, <<agent, parsed>>))
     ELSE \E i \in Position(agent) : cache' = Append(Removing(i), <<agent, parsed>>)

\* Mutation of StoreCached: an entry is evicted only beyond one too many.
StoreOneTooMany(agent, parsed, kept) ==
  /\ kept = parsed
  /\ IF size = 0 THEN UNCHANGED cache
     ELSE /\ Position(agent) = {}
          /\ cache' = IF Len(cache) > size THEN Append(Tail(cache), <<agent, parsed>>)
                      ELSE Append(cache, <<agent, parsed>>)

\* _store_cached_agent: an agent another thread has stored meanwhile is kept.
StoreCached(agent, parsed, kept) ==
  \/ /\ size = 0
     /\ kept = parsed
     /\ UNCHANGED cache
  \/ /\ size > 0
     /\ Position(agent) = {}
     /\ kept = parsed
     /\ cache' = Evicted(Append(cache, <<agent, parsed>>))
  \/ Hit(agent, kept)

-----------------------------------------------------------------------------
(***************************************************************************)
(* A request: parse_agent_for_insert_async and run_cpu_task on the loop,   *)
(* _parse_agent_cached in the thread.                                      *)
(***************************************************************************)

AskHit(r) ==
  /\ pc[r] = "new"
  /\ \E found \in Requests :
       /\ Hit(agentOf[r], found)
       /\ object' = [object EXCEPT ![r] = found]
  /\ pc' = [pc EXCEPT ![r] = "ready"]
  /\ UNCHANGED <<size, agentOf, free, waiting>>

\* Mutation of AskMiss: the number of threads is not bounded.
AskAnyway(r) ==
  /\ pc[r] = "new"
  /\ Miss(agentOf[r])
  /\ free' = free - 1
  /\ pc' = [pc EXCEPT ![r] = "thread"]
  /\ UNCHANGED <<size, agentOf, cache, waiting, object>>

AskMiss(r) ==
  /\ pc[r] = "new"
  /\ Miss(agentOf[r])
  /\ IF free > 0
     THEN /\ free' = free - 1
          /\ pc' = [pc EXCEPT ![r] = "thread"]
          /\ UNCHANGED waiting
     ELSE /\ waiting' = Append(waiting, r)
          /\ pc' = [pc EXCEPT ![r] = "waiting"]
          /\ UNCHANGED free
  /\ UNCHANGED <<size, agentOf, cache, object>>

\* The thread finds what another one has stored while r was waiting.
ThreadHit(r) ==
  /\ pc[r] = "thread"
  /\ \E found \in Requests :
       /\ Hit(agentOf[r], found)
       /\ object' = [object EXCEPT ![r] = found]
  /\ pc' = [pc EXCEPT ![r] = "parsed"]
  /\ UNCHANGED <<size, agentOf, free, waiting>>

ThreadMiss(r) ==
  /\ pc[r] = "thread"
  /\ Miss(agentOf[r])
  /\ pc' = [pc EXCEPT ![r] = "parsing"]
  /\ UNCHANGED agentVars

ParseAndStore(r) ==
  /\ pc[r] = "parsing"
  /\ \E kept \in Requests :
       /\ StoreCached(agentOf[r], r, kept)
       /\ object' = [object EXCEPT ![r] = kept]
  /\ pc' = [pc EXCEPT ![r] = "parsed"]
  /\ UNCHANGED <<size, agentOf, free, waiting>>

\* The parser or the crawler detection raises.
ParseRaises(r) ==
  /\ pc[r] = "parsing"
  /\ pc' = [pc EXCEPT ![r] = "raised"]
  /\ UNCHANGED agentVars

After(r) == IF pc[r] = "parsed" THEN "ready" ELSE "failed"

\* Mutation of Release: the slot is free and the first in line is not woken.
ReleaseSilently(r) ==
  /\ pc[r] \in {"parsed", "raised"}
  /\ free' = free + 1
  /\ pc' = [pc EXCEPT ![r] = After(r)]
  /\ UNCHANGED <<size, agentOf, cache, waiting, object>>

\* Mutation of Release: a task that raises keeps its slot.
ReleaseParsed(r) ==
  /\ pc[r] \in {"parsed", "raised"}
  /\ IF pc[r] = "raised" THEN UNCHANGED <<free, waiting>>
     ELSE /\ free' = IF waiting = <<>> THEN free + 1 ELSE free
          /\ waiting' = IF waiting = <<>> THEN waiting ELSE Tail(waiting)
  /\ pc' = [p \in Requests |-> IF p = r THEN After(r)
                               ELSE IF pc[r] = "parsed" /\ waiting # <<>> /\ p = Head(waiting)
                               THEN "thread" ELSE pc[p]]
  /\ UNCHANGED <<size, agentOf, cache, object>>

\* The loop takes the thread's result; the slot goes to the first in line.
Release(r) ==
  /\ pc[r] \in {"parsed", "raised"}
  /\ IF waiting = <<>>
     THEN /\ free' = free + 1
          /\ pc' = [pc EXCEPT ![r] = After(r)]
          /\ UNCHANGED waiting
     ELSE /\ waiting' = Tail(waiting)
          /\ pc' = [pc EXCEPT ![r] = After(r), ![Head(waiting)] = "thread"]
          /\ UNCHANGED free
  /\ UNCHANGED <<size, agentOf, cache, object>>

Ask(r) == AskHit(r) \/ AskMiss(r)

ThreadStep(r) == ThreadHit(r) \/ ThreadMiss(r) \/ ParseAndStore(r) \/ ParseRaises(r)

AgentStep(r) == ThreadStep(r) \/ Release(r)

CacheNext == \E r \in Requests : Ask(r) \/ AgentStep(r)

cacheVars == <<size, agentOf, cache, free, waiting, pc, object>>

CacheSpec == CacheInit /\ [][CacheNext]_cacheVars

-----------------------------------------------------------------------------
(***************************************************************************)
(* Properties.                                                             *)
(***************************************************************************)

CacheTypeOK ==
  /\ size \in Sizes
  /\ agentOf \in [Requests -> Agents]
  /\ cache \in Seq(Entries)
  /\ free \in 0..Slots
  /\ waiting \in Seq(Requests)
  /\ pc \in [Requests -> Places]
  /\ object \in [Requests -> Requests \union {NoObject}]

\* Whatever requests and threads do to it at a time, the cache stays within
\* its size, names no agent twice, and gives a request an agent parsed from the
\* string the request has sent (useragent.py:54-71).
CacheIsSound ==
  /\ Len(cache) <= size
  /\ \A i, j \in 1..Len(cache) : cache[i][1] = cache[j][1] => i = j
  /\ \A i \in 1..Len(cache) : agentOf[cache[i][2]] = cache[i][1]
  /\ \A r \in Requests : object[r] # NoObject => agentOf[object[r]] = agentOf[r]

\* A cached object leaves the cache only by eviction, as its least recently
\* used entry: a thread that parsed the same agent meanwhile never replaces it,
\* so that callers share the first one (useragent.py:63-71).
FirstCachedWins ==
  [][\A i \in 1..Len(cache) :
       \/ \E j \in 1..Len(cache') : cache'[j] = cache[i]
       \/ i = 1 /\ \A j \in 1..Len(cache') : cache'[j][1] # cache[1][1]]_cacheVars

\* Every slot is free or held by one request, whether its parse returned or
\* raised, and none is free while a request waits (concurrency.py:31-39).
SlotsAreKept ==
  /\ Cardinality(Holding) + free = Slots
  /\ waiting # <<>> => free = 0
  /\ \A r \in Requests : pc[r] = "waiting" <=> \E i \in 1..Len(waiting) : waiting[i] = r
  /\ \A i, j \in 1..Len(waiting) : waiting[i] = waiting[j] => i = j
=============================================================================
