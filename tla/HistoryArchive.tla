--------------------------- MODULE HistoryArchive ---------------------------
(***************************************************************************)
(* The permanent archive of one history dataset: a fact per run attempt    *)
(* with an optional detail payload, gaps, and the usage counters that the  *)
(* quota bounds.  Operators map an archive to an archive; one transaction  *)
(* of HistoryCollection applies them.                                      *)
(*                                                                         *)
(* Statistics are the set of jobs they name and how complete that set is.  *)
(* Sets of jobs give all four outcomes of a comparison; fields of a job    *)
(* that disagree are one more way to conflict and are left out.            *)
(***************************************************************************)
EXTENDS Integers, FiniteSets

CONSTANTS
    Keys,        \* run attempts, <<run, attempt>>
    NoFact       \* an absent fact

Details == {"not_imported", "finite", "unlimited", "expired"}

Facts(jobSets) ==
    [jobs : jobSets, population : {"complete", "partial", "conflict"},
     conflict : BOOLEAN, detail : Details, payload : BOOLEAN]

(* What statistics, a detail payload and a gap occupy, in canonical bytes. *)
StatisticsBytes(statistics) == 1 + Cardinality(statistics.jobs)
DetailBytes == 1
GapBytes == 1

Usage(attempts, jobs, gaps, bytes) ==
    [attempts |-> attempts, jobs |-> jobs, gaps |-> gaps, bytes |-> bytes]

EmptyArchive ==
    [facts |-> [k \in Keys |-> NoFact], gaps |-> {}, usage |-> Usage(0, 0, 0, 0)]

StatisticsUsage(statistics) ==
    Usage(1, Cardinality(statistics.jobs), 0, StatisticsBytes(statistics))

Plus(u, v) ==
    Usage(u.attempts + v.attempts, u.jobs + v.jobs, u.gaps + v.gaps, u.bytes + v.bytes)

Release(u, v) ==
    Usage(u.attempts - v.attempts, u.jobs - v.jobs, u.gaps - v.gaps, u.bytes - v.bytes)

Fits(u, quota) == \A f \in DOMAIN u : u[f] <= quota[f]

----------------------------------------------------------------------------
(* Statistics *)

(* classify_archive_update *)
Classify(prior, incoming) ==
    CASE \/ "conflict" \in {prior.population, incoming.population}
         \/ prior.population = "complete" /\ ~(incoming.jobs \subseteq prior.jobs)
         \/ incoming.population = "complete" /\ ~(prior.jobs \subseteq incoming.jobs)
           -> "conflict"
      [] /\ incoming.jobs \subseteq prior.jobs
         /\ incoming.population = "complete" => prior.population = "complete"
           -> "unchanged"
      [] /\ prior.jobs \subseteq incoming.jobs
         /\ prior.population = "complete" => incoming.population = "complete"
           -> "refined"
      [] OTHER -> "incomparable"

NewFact(statistics) ==
    [jobs |-> statistics.jobs, population |-> statistics.population,
     conflict |-> statistics.population = "conflict",
     detail |-> "not_imported", payload |-> FALSE]

Statistics(fact) == [jobs |-> fact.jobs, population |-> fact.population]

(* store_history_statistics: the archive and the outcome. *)
StoreStatistics(archive, quota, key, statistics) ==
    LET prior == archive.facts[key]
        decision == IF prior = NoFact THEN "recorded"
                    ELSE IF prior.conflict THEN "conflict"
                    ELSE Classify(Statistics(prior), statistics)
        kept == IF prior = NoFact THEN archive.usage
                ELSE Release(archive.usage, StatisticsUsage(Statistics(prior)))
        usage == Plus(kept, StatisticsUsage(statistics))
        fact == IF prior = NoFact THEN NewFact(statistics)
                ELSE [prior EXCEPT !.jobs = statistics.jobs,
                                   !.population = statistics.population]
    IN CASE decision = "unchanged" -> [archive |-> archive, outcome |-> "replayed"]
         [] decision = "incomparable" -> [archive |-> archive, outcome |-> decision]
         [] decision = "conflict" ->
              [archive |-> [archive EXCEPT !.facts[key].conflict = TRUE], outcome |-> decision]
         [] ~(decision \in {"unchanged", "incomparable", "conflict"}) /\ ~Fits(usage, quota) ->
              [archive |-> archive, outcome |-> "capacity_reached"]
         [] OTHER ->
              [archive |-> [archive EXCEPT !.facts[key] = fact, !.usage = usage],
               outcome |-> decision]

----------------------------------------------------------------------------
(* Gaps and details *)

(* store_history_gap: a gap is stored once. *)
StoreGap(archive, quota, gap) ==
    LET usage == Plus(archive.usage, Usage(0, 0, 1, GapBytes))
    IN IF gap \in archive.gaps THEN [archive |-> archive, outcome |-> "replayed"]
       ELSE IF ~Fits(usage, quota) THEN [archive |-> archive, outcome |-> "capacity_reached"]
       ELSE [archive |-> [archive EXCEPT !.gaps = @ \cup {gap}, !.usage = usage],
             outcome |-> "recorded"]

(* Faulty variant, for sensitivity checks only: a removed detail is imported again. *)
StoreDetailAgain(archive, quota, policy, key) ==
    LET fact == archive.facts[key]
        usage == Plus(archive.usage, Usage(0, 0, 0, DetailBytes))
    IN IF fact.payload \/ fact.population # "complete" \/ policy = "disabled"
       THEN [archive |-> archive, outcome |-> "not_imported"]
       ELSE IF ~Fits(usage, quota) THEN [archive |-> archive, outcome |-> "capacity_reached"]
       ELSE [archive |-> [archive EXCEPT !.facts[key].detail = policy,
                                         !.facts[key].payload = TRUE,
                                         !.usage = usage],
             outcome |-> "recorded"]

(* store_history_detail: only the first import under an enabled policy. *)
StoreDetail(archive, quota, policy, key) ==
    LET fact == archive.facts[key]
        usage == Plus(archive.usage, Usage(0, 0, 0, DetailBytes))
    IN IF fact.detail # "not_imported" \/ fact.population # "complete" \/ policy = "disabled"
       THEN [archive |-> archive, outcome |-> "not_imported"]
       ELSE IF ~Fits(usage, quota) THEN [archive |-> archive, outcome |-> "capacity_reached"]
       ELSE [archive |-> [archive EXCEPT !.facts[key].detail = policy,
                                         !.facts[key].payload = TRUE,
                                         !.usage = usage],
             outcome |-> "recorded"]

(* A detail is retained under the finite or the unlimited policy that was   *)
(* applied to it last; expiry and erasure remove the payload.               *)
Retained(fact) == fact # NoFact /\ fact.detail \in {"finite", "unlimited"}

RemoveDetails(archive, keys) ==
    [archive EXCEPT
        !.facts = [k \in Keys |-> IF k \in keys
                                  THEN [@[k] EXCEPT !.detail = "expired", !.payload = FALSE]
                                  ELSE @[k]],
        !.usage = Release(@, Usage(0, 0, 0, DetailBytes * Cardinality(keys)))]

(* One contribution: statistics, the gap they leave and their detail, in a  *)
(* savepoint that is rolled back when any part exceeds the quota.           *)
GapReasonOf(outcome, statistics) ==
    CASE outcome = "incomparable" -> "incomparable"
      [] outcome # "incomparable" /\ statistics.population = "partial" ->
           "job_population_incomplete"
      [] OTHER -> "none"

(* Faulty variant, for sensitivity checks only: what fitted stays behind. *)
ContributeWithoutRollback(archive, quota, policy, key, statistics, detail, gaps) ==
    LET stored == StoreStatistics(archive, quota, key, statistics)
        detailed == IF /\ detail /\ statistics.population = "complete"
                       /\ stored.outcome \in {"recorded", "refined", "replayed"}
                    THEN StoreDetail(stored.archive, quota, policy, key) ELSE stored
    IN [archive |-> [detailed.archive EXCEPT
                        !.usage = IF detailed.outcome = "capacity_reached"
                                  THEN archive.usage ELSE @],
        capacity |-> "capacity_reached" \in {stored.outcome, detailed.outcome}]

Contribute(archive, quota, policy, key, statistics, detail, gaps) ==
    LET stored == StoreStatistics(archive, quota, key, statistics)
        reason == GapReasonOf(stored.outcome, statistics)
        gapped == IF stored.outcome # "capacity_reached" /\ reason # "none"
                  THEN StoreGap(stored.archive, quota, gaps[reason]) ELSE stored
        detailed == IF /\ detail /\ statistics.population = "complete"
                       /\ stored.outcome \in {"recorded", "refined", "replayed"}
                       /\ gapped.outcome # "capacity_reached"
                    THEN StoreDetail(gapped.archive, quota, policy, key) ELSE gapped
        capacity == "capacity_reached" \in {stored.outcome, gapped.outcome, detailed.outcome}
    IN [archive |-> IF capacity THEN archive ELSE detailed.archive, capacity |-> capacity]

----------------------------------------------------------------------------
(* The counters of a dataset are what its rows add up to: one row per fact, *)
(* per job of a fact, per retained detail and per gap.                      *)
FactRows(archive) == {k \in Keys : archive.facts[k] # NoFact}

JobRows(archive) ==
    UNION {{<<k, j>> : j \in archive.facts[k].jobs} : k \in FactRows(archive)}

DetailRows(archive) == {k \in FactRows(archive) : archive.facts[k].payload}

StoredUsage(archive) ==
    LET facts == Cardinality(FactRows(archive))
        jobs == Cardinality(JobRows(archive))
        gaps == Cardinality(archive.gaps)
    IN Usage(facts, jobs, gaps,
             facts + jobs + DetailBytes * Cardinality(DetailRows(archive)) + GapBytes * gaps)

=============================================================================
