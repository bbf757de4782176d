------------------------------ MODULE Scanner ------------------------------
(***************************************************************************)
(* Guard::scan_rules (guard/Scanner.hpp): the keyword pre-filter, the scan *)
(* of one rule, serially or by std::async tasks over buckets of rules, and *)
(* the sweep that coalesces overlapping matches.  Positions count runes.   *)
(* RE2 and the validators are inputs: a rule comes with what its regex     *)
(* matches from each position of the text.                                 *)
(***************************************************************************)
EXTENDS Integers, Sequences, FiniteSets, FiniteSetsExt, Functions

CONSTANTS
  Inputs,                 \* the calls of scan_rules: see Input
  MaxText,                \* longest text
  kParallelTextThreshold,
  kParallelRuleThreshold

(* An input is a record:                                                   *)
(*   size, prefilter_enabled, max_workers, hardware_concurrency            *)
(*   rules: a sequence of records                                          *)
(*     id, broken (null pointer or null regex),                            *)
(*     eligible (prefilter_eligible), hit (a keyword is in the text),      *)
(*     raw: what the regex matches, at most one match for a start: records *)
(*          start, end and groups, the capture groups that took part       *)
(*     capture_groups, min_length, rejected (spans the validators refuse)  *)

\* RE2 reports spans inside the text it searched.
Within(size, s) == s.start \in 0..size /\ s.end \in s.start..size

ASSUME ScannerAssumption ==
  /\ MaxText \in Nat
  /\ kParallelTextThreshold \in Nat /\ kParallelRuleThreshold \in Nat
  /\ \A i \in Inputs :
       /\ i.size \in 0..MaxText
       /\ i.max_workers \in Nat /\ i.hardware_concurrency \in Nat
       /\ i.prefilter_enabled \in BOOLEAN
       /\ i.rules \in Seq(Range(i.rules))
       /\ \A r \in Range(i.rules) : \A m \in r.raw :
            /\ Within(i.size, m)
            /\ \A g \in DOMAIN m.groups : Within(i.size, m.groups[g])
            /\ \A n \in r.raw : m.start = n.start => m = n

VARIABLES
  in,          \* the call
  phase,       \* "filter", "launch", "scan", "unwind", "sweep", "done", "threw"
  active,      \* *active_rules
  task,        \* of each worker: "none", "running", "ready", "failed"
  todo,        \* rules of each bucket still to scan, as indices of active
  found,       \* what each bucket has found
  candidates,  \* matches the sweep has still to see
  run,         \* the run it is growing
  resolved     \* what it has emitted, in order

vars == <<in, phase, active, task, todo, found, candidates, run, resolved>>

Init ==
  /\ in \in Inputs /\ phase = "filter" /\ active = <<>>
  /\ task = <<>> /\ todo = <<>> /\ found = <<>>
  /\ candidates = {} /\ run = {} /\ resolved = <<>>
-----------------------------------------------------------------------------
(* The scan of one rule.                                                   *)

\* The first configured group that took part and is not empty; the whole
\* match when none is configured.  Empty when the match is dropped.
sensitive_span(m, r) ==
  IF r.capture_groups = <<>>
  THEN {s \in {[start |-> m.start, end |-> m.end]} : s.start < s.end}
  ELSE LET at(i) == m.groups[r.capture_groups[i]]
           ok    == {i \in DOMAIN r.capture_groups :
                       /\ r.capture_groups[i] \in DOMAIN m.groups
                       /\ at(i).start < at(i).end}
       IN  {at(i) : i \in {j \in ok : \A h \in ok : j <= h}}

\* What RE2 finds when it searches from pos on.
Leftmost(r, pos) ==
  {m \in r.raw : m.start >= pos /\ \A n \in r.raw : n.start >= pos => m.start <= n.start}

\* A bug: the search goes on one past the end of a match.
Overshoots(r, size) ==
  LET walk[pos \in 0..(size + 1)] ==
        UNION {{m} \cup walk[Min({m.end, size}) + 1] : m \in Leftmost(r, pos)}
  IN  IF size = 0 THEN {} ELSE walk[0]

\* The raw matches the loop accepts, at being <<pos, prev>>, where it searches
\* next and where the match before ended: an empty match moves on by one rune
\* and is not accepted next to the match before.
Accepted(r, size) ==
  LET walk[at \in (0..(size + 1)) \X (-1..size)] ==
        UNION {(IF m.start = m.end /\ m.start = at[2] THEN {} ELSE {m})
                 \cup walk[<<IF m.start < m.end THEN m.end ELSE m.start + 1, m.end>>]
               : m \in Leftmost(r, at[1])}
  IN  IF size = 0 THEN {} ELSE walk[<<0, -1>>]

\* Span selection, min_length and validators.
scan_one_rule(r, size) ==
  {[start |-> s.start, end |-> s.end, id |-> r.id] :
     s \in {s \in UNION {sensitive_span(m, r) : m \in Accepted(r, size)} :
              /\ s.end - s.start >= r.min_length
              /\ s \notin r.rejected}}
-----------------------------------------------------------------------------
(* Filter, dispatch and fan-out.                                           *)

filter_by_keywords(rules) ==
  LET kept[i \in 0..Len(rules)] ==
        IF i = 0 THEN <<>>
        ELSE IF rules[i].broken = "null" \/ ~rules[i].eligible \/ rules[i].hit
        THEN Append(kept[i-1], rules[i]) ELSE kept[i-1]
  IN  kept[Len(rules)]

Active == IF in.prefilter_enabled THEN filter_by_keywords(in.rules) ELSE in.rules

Serial(n) == in.size < kParallelTextThreshold \/ n <= kParallelRuleThreshold

compute_worker_count(n) ==
  LET hw == CHOOSE k \in {in.max_workers, in.hardware_concurrency, 1} :
              \/ k = in.max_workers /\ k # 0
              \/ in.max_workers = 0 /\ k = in.hardware_concurrency /\ k # 0
              \/ in.max_workers = 0 /\ in.hardware_concurrency = 0 /\ k = 1
  IN  Min({n, hw})

\* A bug: rules are dealt in ranges of a rounded-down length.
RangeBuckets(n, w) ==
  [k \in 1..w |-> {i \in 1..n : ((i - 1) \div (n \div w)) + 1 = k}]

\* Rule i goes to bucket i % num_workers; both count from 0.
Buckets(n, w) == [k \in 1..w |-> {i \in 1..n : ((i - 1) % w) + 1 = k}]

Return == /\ phase' = "done"
          /\ UNCHANGED <<in, active, task, todo, found, candidates, run, resolved>>

\* No rules, or none left by the filter.
NothingToScan == phase = "filter" /\ Active = <<>> /\ Return

Filter ==
  /\ phase = "filter" /\ Active # <<>>
  /\ active' = Active
  /\ LET n == Len(Active)
         w == IF Serial(n) THEN 1 ELSE compute_worker_count(n)
     IN  /\ todo' = Buckets(n, w)
         /\ found' = [k \in 1..w |-> {}]
         /\ task' = [k \in 1..w |-> IF Serial(n) THEN "running" ELSE "none"]
         /\ phase' = IF Serial(n) THEN "scan" ELSE "launch"
  /\ UNCHANGED <<in, candidates, run, resolved>>

Unlaunched == {k \in DOMAIN task : task[k] = "none"}

LaunchTask ==
  /\ phase = "launch" /\ Unlaunched # {}
  /\ task' = [task EXCEPT ![Min(Unlaunched)] = "running"]
  /\ phase' = IF Cardinality(Unlaunched) = 1 THEN "scan" ELSE "launch"
  /\ UNCHANGED <<in, active, todo, found, candidates, run, resolved>>

\* A bug: a bucket without a thread is let go, with those behind it.
LaunchGivesUp ==
  /\ phase = "launch" /\ phase' = "scan"
  /\ UNCHANGED <<in, active, task, todo, found, candidates, run, resolved>>

\* std::async cannot start a thread: the futures that exist are destroyed,
\* which waits for their tasks.
LaunchFails ==
  /\ phase = "launch" /\ phase' = "unwind"
  /\ UNCHANGED <<in, active, task, todo, found, candidates, run, resolved>>

\* scan_serial: the next rule of a bucket.
ScanRule(k) ==
  /\ task[k] = "running"
  /\ IF todo[k] = {}
     THEN task' = [task EXCEPT ![k] = "ready"] /\ UNCHANGED <<todo, found>>
     ELSE LET i == Min(todo[k]) IN
          IF active[i].broken # "no"
          THEN task' = [task EXCEPT ![k] = "failed"] /\ UNCHANGED <<todo, found>>
          ELSE /\ found' = [found EXCEPT ![k] =
                              @ \cup scan_one_rule(active[i], in.size)]
               /\ todo' = [todo EXCEPT ![k] = @ \ {i}]
               /\ UNCHANGED task
  /\ UNCHANGED <<in, phase, active, candidates, run, resolved>>

AllJoined == \A k \in DOMAIN task : task[k] # "running"
Failed    == {k \in DOMAIN task : task[k] = "failed"}

\* futures[i].get() on every bucket, then the first error or the merge.
Collect ==
  /\ phase = "scan" /\ AllJoined
  /\ IF Failed # {}
     THEN phase' = "threw" /\ UNCHANGED candidates
     ELSE phase' = "sweep" /\ candidates' = UNION {found[k] : k \in DOMAIN task}
  /\ UNCHANGED <<in, active, task, todo, found, run, resolved>>

Unwind ==
  /\ phase = "unwind" /\ AllJoined /\ phase' = "threw"
  /\ UNCHANGED <<in, active, task, todo, found, candidates, run, resolved>>
-----------------------------------------------------------------------------
(* resolve_conflicts                                                       *)

Length(m) == m.end - m.start

scan_match_less(a, b) ==
  \/ a.start < b.start
  \/ a.start = b.start /\ Length(a) > Length(b)
  \/ a.start = b.start /\ Length(a) = Length(b) /\ a.id < b.id

prefer_as_primary(a, b) ==
  \/ Length(a) > Length(b)
  \/ Length(a) = Length(b) /\ a.start < b.start
  \/ Length(a) = Length(b) /\ a.start = b.start /\ a.id < b.id

run_start == Min({m.start : m \in run})
run_end   == Max({m.end : m \in run})

coalesce_run ==
  [start |-> run_start, end |-> run_end,
   id |-> (CHOOSE m \in run : \A n \in run \ {m} : prefer_as_primary(m, n)).id]

Joins(m) == run # {} /\ m.start < run_end

IsNext(m) == /\ phase = "sweep" /\ m \in candidates
             /\ \A n \in candidates \ {m} : scan_match_less(m, n)

GrowRun ==
  /\ \E m \in candidates : /\ IsNext(m) /\ Joins(m)
                           /\ run' = run \cup {m}
                           /\ candidates' = candidates \ {m}
  /\ UNCHANGED <<in, phase, active, task, todo, found, resolved>>

EmitRun ==
  /\ \E m \in candidates : /\ IsNext(m) /\ ~Joins(m)
                           /\ run' = {m} /\ candidates' = candidates \ {m}
  /\ resolved' = IF run = {} THEN resolved ELSE Append(resolved, coalesce_run)
  /\ UNCHANGED <<in, phase, active, task, todo, found>>

Finish ==
  /\ phase = "sweep" /\ candidates = {} /\ phase' = "done"
  /\ resolved' = IF run = {} THEN resolved ELSE Append(resolved, coalesce_run)
  /\ UNCHANGED <<in, active, task, todo, found, candidates, run>>

Returned == phase \in {"done", "threw"} /\ UNCHANGED vars

Next ==
  \/ NothingToScan \/ Filter \/ LaunchTask \/ LaunchFails
  \/ \E k \in DOMAIN task : ScanRule(k)
  \/ Collect \/ Unwind \/ GrowRun \/ EmitRun \/ Finish \/ Returned

Spec == Init /\ [][Next]_vars
-----------------------------------------------------------------------------
\* Everything the rules of the call detect, whatever the filter and the
\* dispatch did.
Detected == UNION {scan_one_rule(r, in.size) : r \in Range(in.rules)}

\* Two detected matches belong together when no cut, a position that no
\* match spans, lies between them.
Cut(D)        == {p \in 0..MaxText : \A m \in D : p <= m.start \/ m.end <= p}
Together(D, a, b) == \A p \in Cut(D) : (a.end <= p <=> b.end <= p)
Cluster(D, m) == {n \in D : Together(D, m, n)}

\* The spans scan_rules promises: one for each cluster, from its first to
\* its last byte, named after its longest, then leftmost, then lowest member.
Promised ==
  {[start |-> Min({n.start : n \in C}), end |-> Max({n.end : n \in C}),
    id |-> (CHOOSE n \in C : \A o \in C \ {n} : prefer_as_primary(n, o)).id]
     : C \in UNION {{Cluster(D, m) : m \in D} : D \in {Detected}}}

\* scan_rules returns exactly these, sorted, with the filter on or off, in
\* one task or several, whichever finishes first: no detected byte is lost
\* at a boundary between rules, buckets or runs.
ResultIsPromised ==
  phase = "done" =>
    /\ Range(resolved) = Promised
    /\ \A i \in 1..(Len(resolved) - 1) : resolved[i].end <= resolved[i + 1].start

\* The loop over one rule's matches skips no match: what it has not accepted
\* starts inside a match it has accepted, and nothing accepted overlaps.
FindingsComplete ==
  phase = "filter" =>
    \A r \in Range(in.rules) : \A A \in {Accepted(r, in.size)} :
      /\ \A m, n \in A : m # n => m.end <= n.start \/ n.end <= m.start
      /\ \A m \in r.raw : m.start < m.end /\ in.size > 0 =>
           \/ m \in A
           \/ \E n \in A \ {m} : n.start < m.start /\ m.start < n.end

\* scan_rules throws exactly when a rule it had to scan is broken or a thread
\* could not be started: what it returns has every bucket's rules scanned.  It
\* leaves no task behind that still reads the text.
FailureSurfaces ==
  phase \in {"done", "threw"} =>
    /\ AllJoined
    /\ phase = "done" => /\ \A r \in Range(active) : r.broken = "no"
                         /\ Unlaunched = {}
                         /\ \A k \in DOMAIN todo : todo[k] = {}
    /\ phase = "threw" => \/ \E r \in Range(active) : r.broken # "no"
                          \/ Unlaunched # {}
=============================================================================
