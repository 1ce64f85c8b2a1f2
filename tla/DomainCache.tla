---------------------------- MODULE DomainCache ----------------------------
(* shiromail_resolve_domain_id: the mail domain is looked up by every thread *)
(* that creates a mailbox, from a cache shared under _shiromail_domain_lock  *)
(* or, outside the lock, from the provider's list of domains.                *)
EXTENDS Naturals, FiniteSets

CONSTANTS Threads,
          Ttl,           \* lifetime of an entry: 1800 s, 3 ticks of ten minutes
          MaxTime        \* model bound on the clock

ASSUME TimesAssumption == Ttl \in Nat \ {0} /\ MaxTime \in Nat

VARIABLES listed,            \* whether the preferred domain is in the list
          clock,
          id, name, stamp,   \* _shiromail_domain_cache
          place,             \* where each thread is
          trial,             \* attempt of the mailbox creation
          got,               \* the domain a thread resolved
          last               \* history: last time a thread stored an answer

cacheVars == <<listed, clock, id, name, stamp, place, trial, got, last>>

Domains == {"preferred", "first"}
None == "none"
Never == MaxTime + Ttl

CacheTypeOK ==
    /\ listed \in BOOLEAN
    /\ clock \in 0..MaxTime
    /\ id \in Domains \union {None} /\ name \in Domains \union {None}
    /\ stamp \in 0..MaxTime
    /\ place \in [Threads -> {"idle", "lookup", "fetch", "store", "create", "again",
                              "forced", "refreshed"}]
    /\ trial \in [Threads -> 0..3]
    /\ got \in [Threads -> Domains \union {None}]
    /\ last \in [Threads -> 0..MaxTime \union {Never}]

CacheInit ==
    /\ listed \in BOOLEAN
    /\ clock = 0
    /\ id = None /\ name = None /\ stamp = 0
    /\ place = [t \in Threads |-> "idle"]
    /\ trial = [t \in Threads |-> 0]
    /\ got = [t \in Threads |-> None]
    /\ last = [t \in Threads |-> Never]

GoTo(t, p) == place' = [place EXCEPT ![t] = p]

Tick == /\ clock < MaxTime
        /\ clock' = clock + 1
        /\ UNCHANGED <<listed, id, name, stamp, place, trial, got, last>>

(* A mailbox is wanted.                                                      *)
Want(t) ==
    /\ place[t] = "idle"
    /\ GoTo(t, "lookup")
    /\ trial' = [trial EXCEPT ![t] = 1]
    /\ UNCHANGED <<listed, clock, id, name, stamp, got, last>>

(* Mutant: the entry is taken whatever its age.                              *)
HitAlways == id # None /\ name = "preferred"

(* The entry counts if it is the preferred domain and young enough.          *)
Hit == id # None /\ name = "preferred" /\ clock - stamp < Ttl

Lookup(t) ==
    /\ place[t] = "lookup"
    /\ IF Hit
       THEN got' = [got EXCEPT ![t] = id] /\ GoTo(t, "create")
       ELSE GoTo(t, "fetch") /\ UNCHANGED got
    /\ UNCHANGED <<listed, clock, id, name, stamp, trial, last>>

(* The preferred domain if it is in the list, else the first one.            *)
Pick == IF listed THEN "preferred" ELSE "first"

(* GET /api/v1/domains; a failure of the forced refresh keeps the old id.    *)
Fetch(t) ==
    /\ place[t] \in {"fetch", "forced"}
    /\ \/ /\ got' = [got EXCEPT ![t] = Pick]
          /\ GoTo(t, IF place[t] = "fetch" THEN "store" ELSE "refreshed")
          /\ UNCHANGED trial
       \/ /\ GoTo(t, IF place[t] = "fetch" THEN "idle" ELSE "again")
          /\ trial' = [trial EXCEPT ![t] = IF place[t] = "fetch" THEN 0 ELSE @]
          /\ UNCHANGED got
    /\ UNCHANGED <<listed, clock, id, name, stamp, last>>

(* Mutant: the entry's time is not set.                                      *)
StoreOld(t) ==
    /\ place[t] \in {"store", "refreshed"}
    /\ id' = got[t] /\ name' = got[t] /\ stamp' = 0
    /\ last' = [last EXCEPT ![t] = clock]
    /\ GoTo(t, IF place[t] = "store" THEN "create" ELSE "again")
    /\ UNCHANGED <<listed, clock, trial, got>>

(* The three fields are set under the lock.                                  *)
Store(t) ==
    /\ place[t] \in {"store", "refreshed"}
    /\ id' = got[t] /\ name' = got[t] /\ stamp' = clock
    /\ last' = [last EXCEPT ![t] = clock]
    /\ GoTo(t, IF place[t] = "store" THEN "create" ELSE "again")
    /\ UNCHANGED <<listed, clock, trial, got>>

(* POST mailbox: a success, a rate limit (no refresh) or another failure,    *)
(* after which the second attempt refreshes the cache.                       *)
Create(t) ==
    /\ place[t] = "create"
    /\ \/ GoTo(t, "idle") /\ trial' = [trial EXCEPT ![t] = 0]
       \/ GoTo(t, "again") /\ UNCHANGED trial
       \/ GoTo(t, IF trial[t] = 2 THEN "forced" ELSE "again") /\ UNCHANGED trial
    /\ UNCHANGED <<listed, clock, id, name, stamp, got, last>>

(* Mutant: one attempt too many.                                             *)
AgainMore(t) ==
    /\ place[t] = "again"
    /\ IF trial[t] <= 3
       THEN GoTo(t, "create") /\ trial' = [trial EXCEPT ![t] = @ + 1]
       ELSE GoTo(t, "idle") /\ trial' = [trial EXCEPT ![t] = 0]
    /\ UNCHANGED <<listed, clock, id, name, stamp, got, last>>

(* for attempt in range(1, 4)                                                *)
Again(t) ==
    /\ place[t] = "again"
    /\ IF trial[t] < 3
       THEN GoTo(t, "create") /\ trial' = [trial EXCEPT ![t] = @ + 1]
       ELSE GoTo(t, "idle") /\ trial' = [trial EXCEPT ![t] = 0]
    /\ UNCHANGED <<listed, clock, id, name, stamp, got, last>>

Step(t) == \/ Lookup(t) \/ Fetch(t) \/ Store(t) \/ Create(t) \/ Again(t)

CacheNext == Tick \/ \E t \in Threads : Want(t) \/ Step(t)

CacheSpec == CacheInit /\ [][CacheNext]_cacheVars
-----------------------------------------------------------------------------
(* "有缓存时尽量不打 /domains，避免 429 风暴" (with an entry in the cache, /domains *)
(* is left alone): where the preferred domain exists, a thread that stored   *)
(* an answer asks the provider again, unless it is forced to, only when that *)
(* answer is past its lifetime.                                              *)
NoStorm ==
    /\ CacheTypeOK
    /\ listed => \A t \in Threads :
           place[t] = "fetch" /\ last[t] # Never => clock - last[t] >= Ttl

(* An answer taken from the cache, not from the provider, is at most Ttl old *)
(* and is the preferred domain, whichever thread stored it.                  *)
FreshHit ==
    [][\A t \in Threads : (place[t] = "lookup" /\ place'[t] = "create")
           => /\ got'[t] = "preferred"
              /\ \E u \in Threads : last[u] # Never /\ clock - last[u] < Ttl]_cacheVars
=============================================================================
