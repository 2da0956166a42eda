----------------------------- MODULE WhoisCache -----------------------------
(***************************************************************************)
(* The WHOIS client of internal/enrich/whois: one cache file per address,  *)
(* read before and rewritten after a query, by every analysis alive.  A    *)
(* query asks IANA and then the registry IANA refers to.                   *)
(***************************************************************************)
EXTENDS Files, Integers

CONSTANTS
  IPs,        \* the addresses looked up
  MaxTime     \* bound: the hours the clock runs

ASSUME TimeAssumption == MaxTime \in Nat

VARIABLES
  now,        \* the clock
  cache,      \* cache/whois/<ip>.json
  todo,       \* the targets each analysis has still to look up
  lifetime,   \* the TTL each client was made with
  answer,     \* the record a query has brought, not yet in the cache
  records     \* what each analysis has for each address, and since when

whoisVars == <<now, cache, todo, lifetime, answer, records>>

Registries == {"iana", "rir"}
Record     == [registry: Registries, at: 0..MaxTime]
NoRecord   == <<>>

WhoisInit ==
  /\ now = 0
  /\ cache = [ip \in IPs |-> Absent]
  /\ todo = [p \in Runs |-> {}]
  /\ lifetime = [p \in Runs |-> 0]
  /\ answer = [p \in Runs |-> NoRecord]
  /\ records = [p \in Runs |-> [ip \in IPs |-> NoRecord]]

Tick ==
  /\ now < MaxTime
  /\ now' = now + 1
  /\ UNCHANGED <<pc, cache, todo, lifetime, answer, records>>

Looking == {"whois.read", "whois.query", "whois.truncate", "whois.write"}

\* NewClient and the list of targets; the targets come in some order.
StartLookups(p, targets, ttl) ==
  /\ todo' = [todo EXCEPT ![p] = targets]
  /\ lifetime' = [lifetime EXCEPT ![p] = ttl]
  /\ UNCHANGED <<now, cache, answer, records>>

Address(p) == CHOOSE ip \in todo[p] : TRUE

\* Mutant of Hit: a record is good for ever.
HitAnyAge(ip, ttl) == cache[ip].is = "whole"

\* readCache: a file that does not parse counts as missing, and so does a
\* record that has outlived the client's TTL.
Hit(ip, ttl) ==
  /\ cache[ip].is = "whole"
  /\ ttl > 0 => now - cache[ip].value.at <= ttl

\* What an analysis takes out of the cache or brings from a query at a time.
Have(p, ip, r, time) ==
  records' = [records EXCEPT ![p][ip] = [record |-> r, since |-> time]]

ReadCache(p) ==
  /\ pc[p] = "whois.read"
  /\ todo[p] # {}
  /\ LET ip == Address(p) IN
       \/ /\ Hit(ip, lifetime[p])
          /\ Have(p, ip, cache[ip].value, now)
          /\ todo' = [todo EXCEPT ![p] = @ \ {ip}]
          /\ UNCHANGED pc
       \/ /\ ~Hit(ip, lifetime[p])
          /\ Goto(p, "whois.query")
          /\ UNCHANGED <<todo, records>>
  /\ UNCHANGED <<now, cache, lifetime, answer>>

\* Mutant of Query: the record carries the time it expires.
QueryStampsExpiry(p) ==
  /\ pc[p] = "whois.query"
  /\ answer' = [answer EXCEPT ![p] = [registry |-> "iana", at |-> now + lifetime[p]]]
  /\ Goto(p, "whois.truncate")
  /\ UNCHANGED <<now, cache, todo, lifetime, records>>

\* IANA answers; if it refers to a registry that answers too, the record is
\* the registry's, and IANA's own otherwise.  An answer cut short by the
\* deadline is taken as it is.
Query(p) ==
  /\ pc[p] = "whois.query"
  /\ \E registry \in Registries :
       answer' = [answer EXCEPT ![p] = [registry |-> registry, at |-> now]]
  /\ Goto(p, "whois.truncate")
  /\ UNCHANGED <<now, cache, todo, lifetime, records>>

\* IANA cannot be reached: the address goes without a record.
QueryFails(p) ==
  /\ pc[p] = "whois.query"
  /\ todo' = [todo EXCEPT ![p] = @ \ {Address(p)}]
  /\ Goto(p, "whois.read")
  /\ UNCHANGED <<now, cache, lifetime, answer, records>>

\* writeCache, whose errors are ignored.
TruncateCache(p) ==
  /\ pc[p] = "whois.truncate"
  /\ cache' = [cache EXCEPT ![Address(p)] = Empty]
  /\ Goto(p, "whois.write")
  /\ UNCHANGED <<now, todo, lifetime, answer, records>>

Return(p) ==
  /\ Have(p, Address(p), answer[p], answer[p].at)
  /\ todo' = [todo EXCEPT ![p] = @ \ {Address(p)}]
  /\ answer' = [answer EXCEPT ![p] = NoRecord]
  /\ Goto(p, "whois.read")
  /\ UNCHANGED <<now, lifetime>>

WriteCache(p) ==
  /\ pc[p] = "whois.write"
  /\ \E file \in Written(cache[Address(p)], answer[p]) :
       cache' = [cache EXCEPT ![Address(p)] = file]
  /\ Return(p)

CacheFails(p) ==
  /\ pc[p] \in {"whois.truncate", "whois.write"}
  /\ UNCHANGED cache
  /\ Return(p)

KilledInLookup(p) ==
  /\ pc[p] \in Looking
  /\ Killed(p)
  /\ UNCHANGED whoisVars

LookupStep(p) ==
  \/ ReadCache(p) \/ Query(p) \/ QueryFails(p)
  \/ TruncateCache(p) \/ WriteCache(p) \/ CacheFails(p)
  \/ KilledInLookup(p)

(***************************************************************************)
(* Properties                                                              *)
(***************************************************************************)
Kept == [record: Record, since: 0..MaxTime]

WhoisTypeOK ==
  /\ now \in 0..MaxTime
  /\ cache \in [IPs -> FileOf(Record)]
  /\ todo \in [Runs -> SUBSET IPs]
  /\ lifetime \in [Runs -> Int]
  /\ answer \in [Runs -> Record \cup {NoRecord}]
  /\ records \in [Runs -> [IPs -> Kept \cup {NoRecord}]]

\* No analysis is given a record that had outlived its TTL by the time it
\* was given, whatever other analyses do to the cache file meanwhile.
FreshRecords ==
  \A p \in Runs, ip \in IPs :
    records[p][ip] # NoRecord
      => records[p][ip].since - records[p][ip].record.at <= lifetime[p]
=============================================================================
