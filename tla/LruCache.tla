------------------------------ MODULE LruCache ------------------------------
(***************************************************************************)
(* functools.lru_cache with a bounded size (src/lib/functools.js): a dict  *)
(* of links, which are also in a ring round a root, the one used longest   *)
(* ago first.  The function may suspend, call itself, or be called by      *)
(* other threads before it returns; the cache may be cleared meanwhile.    *)
(***************************************************************************)
EXTENDS Naturals, Sequences, FiniteSets, SequencesExt

CONSTANTS Key,       \* what the function is called with
          MaxSize,   \* maxsize, which is positive
          MaxCalls   \* bound: calls of the function at one time

Root == 0
Link == 1..MaxSize

VARIABLES
  cache,    \* the link of each key in the cache
  key,      \* the key in each link
  next,     \* the ring
  prev,
  calls,    \* keys with which the function has been called and not returned
  recent    \* history: keys in the cache, the last one used last

vars == <<cache, key, next, prev, calls, recent>>

Alone == [n \in Link \cup {Root} |-> n]

Init == /\ cache = <<>>
        /\ key \in [Link -> {CHOOSE k \in Key : TRUE}]
        /\ next = Alone
        /\ prev = Alone
        /\ calls = <<>>
        /\ recent = <<>>

-----------------------------------------------------------------------------
(* The ring: r is a pair of next and prev.                                 *)
Ring == [next |-> next, prev |-> prev]

Extracted(r, link) ==
  [next |-> [r.next EXCEPT ![r.prev[link]] = r.next[link]],
   prev |-> [r.prev EXCEPT ![r.next[link]] = r.prev[link]]]

(* A bug: the ring is entered where links leave it. *)
Prepended(r, link) ==
  [next |-> [r.next EXCEPT ![Root] = link, ![link] = r.next[Root]],
   prev |-> [r.prev EXCEPT ![r.next[Root]] = link, ![link] = Root]]

Appended(r, link) ==
  [next |-> [r.next EXCEPT ![r.prev[Root]] = link, ![link] = Root],
   prev |-> [r.prev EXCEPT ![Root] = link, ![link] = r.prev[Root]]]

Becomes(r) == next' = r.next /\ prev' = r.prev

(* Put the key of a call that returned into the cache. *)
Cached(k, link) == cache' = [j \in DOMAIN cache \cup {k} |-> IF j = k THEN link ELSE cache[j]]

HasRoom == Cardinality(DOMAIN cache) < MaxSize \/ next[Root] = Root
IsCached(k) == k \in DOMAIN cache

(* A bug: what was cached during the call is not looked for. *)
NotLookedFor(k) == FALSE
AlreadyCached(k) == IsCached(k)

(* A new link is one that no one has. *)
FreshLink == CHOOSE l \in Link : \A k \in DOMAIN cache : cache[k] # l

-----------------------------------------------------------------------------
(* A call with a key in the cache, which makes it the last one used.       *)
Hit == \E k \in Key :
  /\ IsCached(k)
  /\ Becomes(Appended(Extracted(Ring, cache[k]), cache[k]))
  /\ recent' = Append(RemoveAt(recent, CHOOSE n \in DOMAIN recent : recent[n] = k), k)
  /\ UNCHANGED <<cache, key, calls>>

(* A call with another key calls the function. *)
Miss == \E k \in Key :
  /\ ~IsCached(k)
  /\ Len(calls) < MaxCalls
  /\ calls' = Append(calls, k)
  /\ UNCHANGED <<cache, key, next, prev, recent>>

(* The function returns.  If its key has been put into the cache since, it *)
(* stays as it is; else it takes a new link, or that of the key used       *)
(* longest ago.                                                            *)
Return == \E c \in DOMAIN calls :
  LET k == calls[c]
  IN /\ calls' = RemoveAt(calls, c)
     /\ \/ AlreadyCached(k) /\ UNCHANGED <<cache, key, next, prev, recent>>
        \/ /\ ~AlreadyCached(k) /\ HasRoom
           /\ LET link == FreshLink
              IN /\ Cached(k, link)
                 /\ key' = [key EXCEPT ![link] = k]
                 /\ Becomes(Appended(Ring, link))
                 /\ recent' = Append(recent, k)
        \/ /\ ~AlreadyCached(k) /\ ~HasRoom
           /\ LET link == next[Root]
              IN /\ cache' = [j \in (DOMAIN cache \ {key[link]}) \cup {k} |->
                                IF j = k THEN link ELSE cache[j]]
                 /\ key' = [key EXCEPT ![link] = k]
                 /\ Becomes(Appended(Extracted(Ring, link), link))
                 /\ recent' = Append(Tail(recent), k)

(* The function raises: nothing is cached. *)
Raise == \E c \in DOMAIN calls :
  /\ calls' = RemoveAt(calls, c)
  /\ UNCHANGED <<cache, key, next, prev, recent>>

(* cache_clear() has a new root, with none of the old links. *)
CacheClear ==
  /\ cache' = <<>>
  /\ Becomes([next |-> Alone, prev |-> Alone])
  /\ recent' = <<>>
  /\ UNCHANGED <<key, calls>>

Next == Hit \/ Miss \/ Return \/ Raise \/ CacheClear

Spec == Init /\ [][Next]_vars

-----------------------------------------------------------------------------
(* Round the ring are the keys of the cache, at most MaxSize, from the one *)
(* used longest ago to the one used last, whatever calls overlap.          *)
LinkAt(n) == IF n \in DOMAIN recent THEN cache[recent[n]] ELSE Root

CacheKeepsRecent ==
  LET size == Len(recent)
  IN /\ size <= MaxSize
     /\ DOMAIN cache = Range(recent)
     /\ \A n, m \in 1..size : recent[n] = recent[m] => n = m
     /\ \A n \in 1..size : LinkAt(n) \in Link /\ key[LinkAt(n)] = recent[n]
     /\ \A n \in 0..size : /\ next[LinkAt(n)] = LinkAt(n + 1)
                           /\ prev[LinkAt(n + 1)] = LinkAt(n)

=============================================================================
