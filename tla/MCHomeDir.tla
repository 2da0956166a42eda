------------------------------ MODULE MCHomeDir ------------------------------
EXTENDS HomeDir, TLC

MCEditions == <<"city", "asn">>

\* Credentials are set.
MCBefore == {[Default EXCEPT !.license = TRUE]}

\* A switch turned off, another lifetime, and a key nobody knows.
MCRequests == {<<"whois", FALSE>>, <<"hours", 0>>, <<"bogus", TRUE>>}

\* Any run of a command may take the place of any other.
Symmetry == Permutations(Runs)

HasUpdated  == \E p \in Runs : job[p].since # 0
HasLookedUp == \E p \in Runs : lifetime[p] # 0

\* Only the age of a record counts, and only which of two versions is the
\* later one: the clock stands still while there is no record, and nothing is
\* published before an update has begun.  Updates and lookups read nothing of
\* each other: a behaviour has steps of one kind.
Relevant ==
  /\ now' # now => \/ \E ip \in IPs : cache[ip] # Absent
                   \/ \E p \in Runs : answer[p] # NoRecord
  /\ published' # published => HasUpdated
  /\ ~(HasUpdated' /\ HasLookedUp')

\* The memory of a run is gone when it ends, and how it ended does not matter
\* to the others; nor does what is in a file that no name and no run refers
\* to.  States that differ in nothing else are one.
Alive(f) == [p \in Runs |-> IF Live(p) THEN <<f[p]>> ELSE <<>>]

InUse(n) ==
  \/ \E e \in Edition : n \in {installed[e], temporary[e]}
  \/ \E p \in Runs : Live(p) /\ (job[p].fd = n \/ \E e \in Edition : opened[p][e] = n)

View ==
  <<[p \in Runs |-> IF pc[p] \in Ended THEN "ended" ELSE pc[p]],
    configFile, wanted, lost, Alive(cfg), Alive(request),
    published, manifest, installed, temporary,
    [n \in {m \in Inodes : InUse(m)} |-> inode[n]], Alive(job), Alive(opened),
    Alive(looked), overlapped, {p \in together : Live(p)}, together = {},
    HasUpdated, HasLookedUp, now, cache, Alive(todo), Alive(lifetime), Alive(answer),
    Alive(records), Alive([p \in Runs |-> settled[p].whois]), Alive(caught)>>
=============================================================================
