------------------------------ MODULE CiGate_proofs ------------------------------
(***************************************************************************)
(* The gate is right for any findings, severities, suppressions and command *)
(* lines, over any sequence of runs, edits, days and damaged files.         *)
(***************************************************************************)
EXTENDS CiGate, TLAPS

Filtered == active = Only(raw, In(raw) \ Suppressed)
HasRead == stage \in {"suppressed", "compared", "written", "exited"}
HasCompared == stage \in {"compared", "written", "exited"}

Types ==
    /\ day \in 0..LastDay
    /\ config \in Configs
    /\ supFile \in [status : FileStatus \cup {"bad entry"}, entries : SUBSET Entries]
    /\ baseline \in [status : FileStatus, fps : SUBSET Finding]
    /\ stage \in {"idle", "analysed", "suppressed", "compared", "written", "exited"}
    /\ opts \in Options \cup {NoOptions}
    /\ raw \in [Finding -> 0..MaxSeverity]
    /\ active \in [Finding -> 0..MaxSeverity]
    /\ In(active) \subseteq In(raw)
    /\ In(raw) \subseteq In(config)

\* The files between runs: one that cannot be read has no entries, and the fingerprints
\* of a good baseline are what the run that wrote it showed.
Files ==
    /\ supFile.status \in {"absent", "corrupt", "undecodable"} => supFile.entries = {}
    /\ baseline.status = "ok" => baseline.fps = Deduplicated(atWrite.active)

\* What a run has of the files once it has read them. The baseline it compared with is
\* still there unless the run has written one.
ReadSuppressions ==
    /\ stage = "idle" => raw = NoFindings /\ active = NoFindings /\ opts = NoOptions /\ failed = {}
    /\ stage = "analysed" => active = raw /\ failed = {}
    /\ HasRead /\ ~Filtered => stage = "exited" /\ failed # {}
    /\ HasRead /\ opts.suppressions /\ supFile.status # "ok" => failed # {}
ReadBaseline ==
    /\ ~diff.made => diff = NoDiff
    /\ stage \in {"idle", "analysed", "suppressed"} => ~diff.made
    /\ HasCompared /\ (opts.baseline \/ opts.failOnNew > 0) /\ ~diff.made => failed # {}
    /\ diff.made => opts.baseline /\ Filtered
    /\ diff.made => \E fps \in SUBSET Finding :
          /\ diff = Diff(fps)
          /\ stage = "compared" \/ ~opts.write => baseline.status = "ok" /\ fps = baseline.fps

Concluded == IF stage = "exited" THEN code = CiExitCode ELSE code = 0

IInv == Types /\ Files /\ ReadSuppressions /\ ReadBaseline /\ Concluded

-----------------------------------------------------------------------------
(* A run reads its inputs in order and leaves what it has read alone. *)

\* The gate begins between runs, with nothing read, shown or compared.
LEMMA InitIInv == GateInit => IInv
<1> SUFFICES ASSUME GateInit PROVE IInv
  OBVIOUS
<1>1. NoFindings \in [Finding -> 0..MaxSeverity] /\ In(NoFindings) = {}
  BY ConfigsAssumption DEF NoFindings, In
<1>2. Types
  BY <1>1, ConfigsAssumption, EntriesAssumption DEF GateInit, Types, NoBaseline, FileStatus
<1>3. QED
  BY <1>2 DEF GateInit, IInv, Files, ReadSuppressions, ReadBaseline, Concluded, NoBaseline, NoDiff,
     HasRead, HasCompared

\* Options are what a command line may say.
LEMMA OptionsType ==
    ASSUME Types
    PROVE  opts \in [failOn : Nat, failOnNew : Nat, suppressions : BOOLEAN,
                     baseline : BOOLEAN, write : BOOLEAN]
<1>1. NoOptions \in [failOn : Nat, failOnNew : Nat, suppressions : BOOLEAN,
                     baseline : BOOLEAN, write : BOOLEAN]
  BY DEF NoOptions
<1>2. QED BY <1>1, OptionsAssumption DEF Types

\* Restricting findings keeps the severities of those that stay.
LEMMA OnlyType ==
    ASSUME NEW c \in [Finding -> 0..MaxSeverity], NEW S \in SUBSET In(c)
    PROVE  /\ Only(c, S) \in [Finding -> 0..MaxSeverity]
           /\ In(Only(c, S)) = S
           /\ \A f \in S : Only(c, S)[f] = c[f]
BY ConfigsAssumption DEF Only, In

\* What happens between runs touches no run.
LEMMA BetweenRuns ==
    ASSUME IInv, EditConfig \/ EditSuppressions \/ NextDay \/ DamageBaseline
    PROVE  IInv'
<1> USE DEF IInv
<1>1. stage = "idle" /\ stage' = "idle" /\ UNCHANGED <<opts, raw, active, diff, issueCodes, failed, code, atWrite>>
  BY DEF EditConfig, EditSuppressions, NextDay, DamageBaseline
<1>2. In(raw) = {} /\ ~diff.made
  BY <1>1 DEF ReadSuppressions, ReadBaseline, NoFindings, In
<1>3. /\ day' \in 0..LastDay /\ config' \in Configs
      /\ supFile' \in [status : FileStatus \cup {"bad entry"}, entries : SUBSET Entries]
      /\ supFile'.status \in {"absent", "corrupt", "undecodable"} => supFile'.entries = {}
  <2>1. CASE EditConfig \/ EditSuppressions \/ DamageBaseline
    BY <2>1 DEF Types, Files, EditConfig, EditSuppressions, DamageBaseline, env
  <2>2. CASE NextDay
    <3>1. day' \in 0..LastDay
      <4>1. LastDay \in Nat /\ day \in 0..LastDay
        BY EntriesAssumption DEF Types
      <4>2. QED BY <2>2, <4>1 DEF NextDay
    <3>2. QED BY <2>2, <3>1 DEF Types, Files, NextDay
  <2>3. QED BY <2>1, <2>2
<1>4. /\ baseline' \in [status : FileStatus, fps : SUBSET Finding]
      /\ baseline'.status = "ok" => baseline' = baseline
  <2>1. CASE DamageBaseline
    <3>1. PICK status \in FileStatus \ {"ok"} : baseline' = [status |-> status, fps |-> {}]
      BY <2>1 DEF DamageBaseline
    <3>2. QED BY <3>1
  <2>2. CASE UNCHANGED baseline
    BY <2>2 DEF Types
  <2>3. QED BY <2>1, <2>2 DEF EditConfig, EditSuppressions, NextDay
<1>5. Types' /\ Files'
  BY <1>1, <1>2, <1>3, <1>4 DEF Types, Files, In, Deduplicated
<1>6. ReadSuppressions' /\ ReadBaseline' /\ Concluded'
  BY <1>1, <1>2 DEF ReadSuppressions, ReadBaseline, Concluded, HasRead, HasCompared, NoDiff, NoFindings
<1>7. QED BY <1>5, <1>6

\* An analysis begins a run: what it finds is shown until suppressions are read.
LEMMA AnalyseKeeps == ASSUME IInv, AnalysisReturns PROVE IInv'
<1> USE DEF IInv
<1>1. config \in [Finding -> 0..MaxSeverity]
  BY ConfigsAssumption DEF Types
<1>2. raw' \in [Finding -> 0..MaxSeverity] /\ In(raw') \subseteq In(config)
  <2>1. CASE raw' = config
    BY <1>1, <2>1
  <2>2. ASSUME NEW S \in SUBSET In(config), raw' = Only(config, S)
        PROVE  raw' \in [Finding -> 0..MaxSeverity] /\ In(raw') \subseteq In(config)
    BY <1>1, <2>2, OnlyType
  <2>3. QED BY <2>1, <2>2 DEF AnalysisReturns
<1>3. Types'
  BY <1>2 DEF Types, AnalysisReturns, env, In
<1>4. Files'
  BY DEF Files, AnalysisReturns, env, Deduplicated
<1>5. ReadSuppressions' /\ ReadBaseline' /\ Concluded'
  BY DEF AnalysisReturns, ReadSuppressions, ReadBaseline, Concluded, HasRead, HasCompared, NoDiff
<1>6. QED BY <1>3, <1>4, <1>5

\* Suppressions are applied as the file has them on that day, or the run has failed.
LEMMA ApplySuppressionsKeeps == ASSUME IInv, ApplySuppressions PROVE IInv'
<1> USE DEF IInv
<1>1. /\ stage = "analysed" /\ stage' = "suppressed"
      /\ UNCHANGED <<env, baseline, opts, raw, diff, code, atWrite>>
      /\ active' = Only(raw, In(raw) \ Suppressed)
  BY DEF ApplySuppressions
<1>2. active' \in [Finding -> 0..MaxSeverity] /\ In(active') = In(raw) \ Suppressed
  BY <1>1, OnlyType DEF Types
<1>3. Types'
  BY <1>1, <1>2 DEF Types, env, In
<1>4. Files'
  BY <1>1 DEF Files, env, Deduplicated
<1>5. Suppressed' = Suppressed
  BY <1>1 DEF Suppressed, ReadsSuppressions, Live, Gating, In, env
<1>6. Filtered'
  BY <1>1, <1>5 DEF Filtered, Only, In
<1>7. opts.suppressions /\ supFile.status # "ok" => failed' # {}
  <2> SUFFICES ASSUME opts.suppressions, supFile.status # "ok" PROVE "suppressions" \in failed'
    OBVIOUS
  <2>1. ReadsSuppressions
    BY DEF ReadsSuppressions
  <2>2. "suppression_error" \in SuppressionIssues /\ "suppression_error" \in ErrorCodes
    BY DEF SuppressionIssues, ErrorCodes
  <2>3. QED BY <2>1, <2>2 DEF ApplySuppressions
<1>8. ReadSuppressions'
  BY <1>1, <1>6, <1>7, OptionsType DEF ReadSuppressions, HasRead, env, Filtered
<1>9. ReadBaseline' /\ Concluded'
  BY <1>1 DEF ReadBaseline, Concluded, HasCompared
<1>10. QED BY <1>3, <1>4, <1>8, <1>9

\* The outcome of a comparison depends on the findings only.
LEMMA DiffStays ==
    ASSUME UNCHANGED <<raw, active>>, NEW fps
    PROVE  Diff(fps)' = Diff(fps)
BY DEF Diff, Current, Deduplicated, In

\* From then on the findings of a run do not change, nor what suppresses them.
LEMMA FindingsStay ==
    ASSUME IInv, stage \in {"suppressed", "compared", "written"},
           stage' \in {"suppressed", "compared", "written", "exited"},
           UNCHANGED <<env, opts, raw, active>>, failed \subseteq failed'
    PROVE  ReadSuppressions'
<1>1. Suppressed' = Suppressed
  BY DEF Suppressed, ReadsSuppressions, Live, Gating, In, env
<1>2. Filtered' <=> Filtered
  BY <1>1 DEF Filtered, Only, In
<1>3. QED
  BY <1>2, OptionsType DEF IInv, ReadSuppressions, HasRead, env, Filtered

\* A traceback ends a run before anything was compared, with an exit code of its own.
LEMMA TracebackKeeps == ASSUME IInv, Traceback PROVE IInv'
<1> USE DEF IInv
<1>1. /\ stage \in {"analysed", "suppressed"} /\ stage' = "exited"
      /\ failed' = {"traceback"} /\ code' = 1
      /\ UNCHANGED <<env, baseline, opts, raw, active, diff, issueCodes, atWrite>>
  BY DEF Traceback
<1>2. Types'
  BY <1>1 DEF Types, env, In
<1>3. Files'
  BY <1>1 DEF Files, env, Deduplicated
<1>4. ReadSuppressions' /\ ReadBaseline' /\ Concluded'
  BY <1>1 DEF ReadSuppressions, ReadBaseline, Concluded, HasRead, HasCompared, CiExitCode
<1>5. QED BY <1>2, <1>3, <1>4

\* A comparison is made with the file as it is then, or the run has failed.
LEMMA ApplyBaselineKeeps == ASSUME IInv, ApplyBaseline PROVE IInv'
<1> USE DEF IInv
<1>1. /\ stage = "suppressed" /\ stage' = "compared"
      /\ UNCHANGED <<env, baseline, opts, raw, active, code, atWrite>>
  BY DEF ApplyBaseline
<1>2. Types'
  BY <1>1 DEF Types, env, In
<1>3. Files'
  BY <1>1 DEF Files, env, Deduplicated
<1>4. failed \subseteq failed'
  BY DEF ApplyBaseline
<1>5. ReadSuppressions'
  BY <1>1, <1>4, FindingsStay
<1>6. ReadBaseline'
  <2>0. Filtered'
    BY <1>1, <1>5 DEF ReadSuppressions, HasRead
  <2>1. CASE opts.baseline /\ baseline.status = "ok"
    <3>1. diff' = Diff(baseline.fps) /\ Diff(baseline.fps).made
      BY <2>1 DEF ApplyBaseline, Diff
    <3>2. baseline.fps \in SUBSET Finding
      BY DEF Types
    <3>3. diff' = [made |-> TRUE, new |-> Current' \ baseline.fps, unchanged |-> Current' \cap baseline.fps,
                   resolved |-> (baseline.fps \ Current') \ (In(raw') \ In(active'))]
      BY <1>1, <3>1 DEF Diff, Current, Deduplicated, In
    <3>4. QED
      BY <1>1, <2>0, <2>1, <3>1, <3>2, <3>3 DEF ReadBaseline, HasCompared, Diff
  <2>2. CASE ~(opts.baseline /\ baseline.status = "ok")
    BY <1>1, <2>2 DEF ApplyBaseline, ReadBaseline, NoDiff
  <2>3. QED BY <2>1, <2>2
<1>7. Concluded'
  BY <1>1 DEF Concluded
<1>8. QED BY <1>2, <1>3, <1>5, <1>6, <1>7

\* The last steps of a run keep the comparison.
LEMMA ComparisonStays ==
    ASSUME IInv, HasCompared, stage' \in {"written", "exited"},
           UNCHANGED <<env, opts, raw, active, diff>>,
           failed \subseteq failed', ~opts.write => stage = "compared" /\ UNCHANGED baseline
    PROVE  ReadBaseline'
<1> USE DEF IInv, ReadBaseline
<1>1. diff'.made => \E fps \in SUBSET Finding :
          /\ diff' = Diff(fps)'
          /\ ~opts.write => baseline'.status = "ok" /\ fps = baseline'.fps
  <2> SUFFICES ASSUME diff.made
      PROVE \E fps \in SUBSET Finding :
          /\ diff = Diff(fps)
          /\ ~opts.write => baseline'.status = "ok" /\ fps = baseline'.fps
    BY DiffStays
  <2>1. QED OBVIOUS
<1>2. Filtered' <=> Filtered
  BY DEF Filtered, Only, In, Suppressed, ReadsSuppressions, Live, Gating, env
<1>3. QED
  BY <1>1, <1>2 DEF HasCompared

\* A baseline is written of the findings of the run, or the file stays what it was.
LEMMA WriteKeeps == ASSUME IInv, WriteBaseline \/ BaselineFails \/ KilledWriting PROVE IInv'
<1> USE DEF IInv
<1>1. /\ stage = "compared" /\ stage' \in {"written", "exited"} /\ opts.write
      /\ UNCHANGED <<env, opts, raw, active, diff>> /\ failed \subseteq failed'
  BY DEF WriteBaseline, BaselineFails, KilledWriting
<1>2. Current \in SUBSET Finding
  BY DEF Current, Deduplicated, In
<1>3. Types'
  <2>1. baseline' \in [status : FileStatus, fps : SUBSET Finding]
    <3>1. "ok" \in FileStatus /\ Corrupt \in [status : FileStatus, fps : SUBSET Finding]
      BY DEF Corrupt, FileStatus
    <3>2. CASE WriteBaseline
      BY <1>2, <3>1, <3>2 DEF WriteBaseline, Payload
    <3>3. CASE BaselineFails
      BY <3>1, <3>3 DEF Types, BaselineFails
    <3>4. CASE KilledWriting
      BY <3>1, <3>4 DEF KilledWriting
    <3>5. QED BY <3>2, <3>3, <3>4
  <2>2. QED BY <1>1, <2>1 DEF Types, env, In
<1>4. Files'
  BY <1>1 DEF Files, env, Deduplicated, Payload, Current, Corrupt, WriteBaseline, BaselineFails, KilledWriting
<1>5. ReadSuppressions' /\ ReadBaseline'
  BY <1>1, FindingsStay, ComparisonStays DEF HasCompared
<1>6. Concluded'
  BY <1>1 DEF Concluded, CiExitCode, WriteBaseline, BaselineFails, KilledWriting
<1>7. QED BY <1>3, <1>4, <1>5, <1>6

\* A run exits with the code of what it knows.
LEMMA ExitRunKeeps == ASSUME IInv, ExitRun PROVE IInv'
<1> USE DEF IInv
<1>1. /\ stage \in {"compared", "written"} /\ stage' = "exited"
      /\ opts.write \/ stage = "compared"
      /\ UNCHANGED <<env, baseline, opts, raw, active, diff, issueCodes, failed, atWrite>>
  BY OptionsType DEF ExitRun
<1>2. Types'
  BY <1>1 DEF Types, env, In
<1>3. Files'
  BY <1>1 DEF Files, env, Deduplicated
<1>4. ReadSuppressions' /\ ReadBaseline'
  BY <1>1, FindingsStay, ComparisonStays DEF HasCompared
<1>5. CiExitCode' = CiExitCode
  BY <1>1 DEF CiExitCode, Gating, Blocking, Current, Deduplicated, In
<1>6. Concluded'
  BY <1>1, <1>5 DEF ExitRun, Concluded
<1>7. QED BY <1>2, <1>3, <1>4, <1>6

\* Nothing of a run is left when the next one may begin.
LEMMA CollectKeeps == ASSUME IInv, Collect PROVE IInv'
<1> USE DEF IInv
<1>1. NoFindings \in [Finding -> 0..MaxSeverity] /\ In(NoFindings) = {}
  BY ConfigsAssumption DEF NoFindings, In
<1>2. Types'
  BY <1>1 DEF Types, Collect, env, In, NoFindings
<1>3. Files'
  BY DEF Files, Collect, env, Deduplicated
<1>4. ReadSuppressions' /\ ReadBaseline' /\ Concluded'
  BY DEF Collect, ReadSuppressions, ReadBaseline, Concluded, HasRead, HasCompared, NoDiff, NoFindings
<1>5. QED BY <1>2, <1>3, <1>4

\* Every step of the gate preserves the invariant.
LEMMA NextIInv == IInv /\ [GateNext]_gateVars => IInv'
<1> SUFFICES ASSUME IInv, [GateNext]_gateVars PROVE IInv'
  OBVIOUS
<1>1. CASE UNCHANGED gateVars
  <2>1. Types' /\ Files'
    BY <1>1 DEF IInv, gateVars, Types, Files, In, Deduplicated
  <2>2. ReadSuppressions'
    BY <1>1 DEF IInv, gateVars, ReadSuppressions, HasRead, Filtered, Suppressed, ReadsSuppressions, Live,
       Gating, Only, In, NoFindings
  <2>3. ReadBaseline'
    <3>1. \A fps : Diff(fps)' = Diff(fps)
      BY <1>1, DiffStays DEF gateVars
    <3>2. Filtered' <=> Filtered
      BY <1>1 DEF gateVars, Filtered, Only, In, Suppressed, ReadsSuppressions, Live, Gating
    <3>3. QED BY <1>1, <3>1, <3>2 DEF IInv, gateVars, ReadBaseline, HasCompared
  <2>4. Concluded'
    BY <1>1 DEF IInv, gateVars, Concluded, CiExitCode, Gating, Blocking, Current, Deduplicated, In
  <2>5. QED BY <2>1, <2>2, <2>3, <2>4 DEF IInv
<1>2. QED
  BY <1>1, BetweenRuns, AnalyseKeeps, ApplySuppressionsKeeps, TracebackKeeps, ApplyBaselineKeeps,
     WriteKeeps, ExitRunKeeps, CollectKeeps DEF GateNext, Run

\* The invariant of the gate, over any sequence of runs.
THEOREM Invariance == GateSpec => []IInv
<1>1. QED BY InitIInv, NextIInv, PTL DEF GateSpec

-----------------------------------------------------------------------------
(* What follows for the exit code. *)

\* The analysis' findings that the report shows are those no entry in force covers.
LEMMA ShownUnlessSuppressed ==
    ASSUME IInv, Filtered, NEW f \in In(raw)
    PROVE  /\ f \in In(active) <=> ~(ReadsSuppressions /\ RightlySuppressed(f))
           /\ f \in In(active) => active[f] = raw[f]
<1>1. ASSUME NEW e \in supFile.entries PROVE ~(e.expires < day) <=> e.expires >= day
  <2>1. e \in Entries
    BY DEF IInv, Types
  <2>2. e.expires \in Nat
    BY <2>1, EntriesAssumption
  <2>3. LastDay \in Nat /\ day \in 0..LastDay
    BY EntriesAssumption DEF IInv, Types
  <2>4. QED BY <2>2, <2>3
<1>2. f \in Suppressed <=> ReadsSuppressions /\ RightlySuppressed(f)
  BY <1>1 DEF Suppressed, Live, RightlySuppressed
<1>3. /\ In(active) = In(raw) \ Suppressed
      /\ \A g \in In(raw) \ Suppressed : active[g] = raw[g]
  <2>1. raw \in [Finding -> 0..MaxSeverity] /\ In(raw) \ Suppressed \in SUBSET In(raw)
    BY DEF IInv, Types
  <2>2. QED BY <2>1, OnlyType DEF Filtered
<1>4. QED BY <1>2, <1>3

\* Deduplication drops a finding only if a specific one is shown.
LEMMA CurrentUnlessTold ==
    ASSUME IInv, Filtered, NEW f \in In(active)
    PROVE  f \in Current \/ ToldBySpecific(f)
<1> SUFFICES ASSUME f \notin Current PROVE ToldBySpecific(f)
  OBVIOUS
<1>1. PICK s \in Covers[f] : s \in In(active)
  BY DEF Current, Deduplicated
<1>2. s \in In(raw)
  BY <1>1 DEF IInv, Types
<1>3. QED BY <1>1, <1>2, ShownUnlessSuppressed DEF ToldBySpecific

\* The parts of a comparison; its base is the run that wrote the baseline, if the file is still there.
LEMMA DiffParts ==
    ASSUME IInv, diff.made
    PROVE  \E fps \in SUBSET Finding :
              /\ diff.new = Current \ fps /\ diff.unchanged = Current \cap fps
              /\ diff.resolved = (fps \ Current) \ (In(raw) \ In(active))
              /\ ~opts.write => fps = Deduplicated(atWrite.active)
<1>1. PICK fps \in SUBSET Finding :
          /\ diff = Diff(fps)
          /\ stage = "compared" \/ ~opts.write => baseline.status = "ok" /\ fps = baseline.fps
  BY DEF IInv, ReadBaseline
<1>2. QED BY <1>1 DEF Diff, IInv, Files

\* Deduplication adds no finding.
LEMMA CurrentIsShown == Current \subseteq In(active)
BY DEF Current, Deduplicated

\* A comparison has each finding as new or as unchanged.
LEMMA TypeFollows == IInv => GateTypeOK
<1> SUFFICES ASSUME IInv PROVE GateTypeOK
  OBVIOUS
<1>1. diff.new \cap diff.unchanged = {} /\ diff.new \cup diff.unchanged \subseteq In(active)
  <2>1. CASE diff.made
    BY <2>1, DiffParts, CurrentIsShown
  <2>2. CASE ~diff.made
    BY <2>2 DEF IInv, ReadBaseline, NoDiff
  <2>3. QED BY <2>1, <2>2
<1>2. code \in {0, 1, 2}
  BY DEF IInv, Concluded, CiExitCode
<1>3. QED BY <1>1, <1>2 DEF IInv, Types, GateTypeOK

\* An exit code of 0 hides no finding that blocks.
LEMMA GreenFollows == IInv => GreenIsAccountedFor
<1> SUFFICES ASSUME IInv, Exited, code = 0, NEW f \in In(raw), ~RightlySuppressed(f), ~ToldBySpecific(f)
    PROVE  /\ ~(opts.failOn > 0 /\ raw[f] >= opts.failOn)
           /\ opts.failOnNew > 0 /\ raw[f] >= opts.failOnNew => f \in diff.unchanged
  BY DEF GreenIsAccountedFor
<1>1. failed = {} /\ code = CiExitCode
  BY DEF IInv, Concluded, Exited, CiExitCode
<1>2. Filtered
  BY <1>1 DEF IInv, ReadSuppressions, HasRead, Exited
<1>3. f \in Current /\ active[f] = raw[f]
  BY <1>2, ShownUnlessSuppressed, CurrentUnlessTold
<1>4. ~(opts.failOn > 0 /\ raw[f] >= opts.failOn)
  BY <1>1, <1>3 DEF CiExitCode, Gating, Blocking
<1>5. ASSUME opts.failOnNew > 0, raw[f] >= opts.failOnNew
      PROVE  f \in diff.unchanged
  <2>1. diff.made
    BY <1>1, <1>5 DEF IInv, ReadBaseline, HasCompared, Exited
  <2>2. f \notin diff.new
    BY <1>1, <1>3, <1>5 DEF CiExitCode, Gating, Blocking
  <2>3. QED BY <1>3, <2>1, <2>2, DiffParts
<1>6. QED BY <1>4, <1>5

\* A suppression that has expired does not hide what it suppressed when the baseline was written.
LEMMA ExpiryFollows == IInv => ExpiredBlocksAgain
<1> SUFFICES ASSUME IInv, Exited, diff.made, ~opts.write, opts.failOnNew > 0,
                    failed = {}, issueCodes \cap ErrorCodes = {},
                    NEW f \in (atWrite.raw \ atWrite.active) \cap In(raw),
                    raw[f] >= opts.failOnNew, ~RightlySuppressed(f), ~ToldBySpecific(f)
    PROVE  code = 2
  BY DEF ExpiredBlocksAgain
<1>1. Filtered
  BY DEF IInv, ReadBaseline
<1>2. f \in Current /\ active[f] = raw[f]
  BY <1>1, ShownUnlessSuppressed, CurrentUnlessTold
<1>3. f \in diff.new
  BY <1>2, DiffParts DEF Deduplicated
<1>4. QED
  BY <1>2, <1>3 DEF IInv, Concluded, Exited, CiExitCode, Gating, Blocking

\* What counts as resolved was not found, or a specific rule tells of it now.
LEMMA ResolvedFollows == IInv => ResolvedIsGone
<1> SUFFICES ASSUME IInv, NEW f \in diff.resolved, f \in In(raw) PROVE ToldBySpecific(f)
  BY DEF ResolvedIsGone
<1>1. diff.made
  BY DEF IInv, ReadBaseline, NoDiff
<1>2. f \in In(active) /\ f \notin Current
  BY <1>1, DiffParts
<1>3. QED BY <1>1, <1>2, CurrentUnlessTold DEF IInv, ReadBaseline

\* A red run has a finding or an error to show for it.
LEMMA RedFollows == IInv => RedIsEarned
<1> SUFFICES ASSUME IInv PROVE RedIsEarned
  OBVIOUS
<1>1. RedIsJustified
  <2> SUFFICES ASSUME Exited, code = 2
      PROVE  \E f \in In(raw) :
                /\ ~RightlySuppressed(f) \/ ~ReadsSuppressions
                /\ \/ opts.failOn > 0 /\ raw[f] >= opts.failOn
                   \/ opts.failOnNew > 0 /\ raw[f] >= opts.failOnNew /\ f \notin diff.unchanged
    BY DEF RedIsJustified
  <2>1. /\ failed = {}
        /\ Blocking(Current, opts.failOn) \/ Blocking(diff.new, opts.failOnNew)
    BY DEF IInv, Concluded, Exited, CiExitCode
  <2>2. Filtered
    BY <2>1 DEF IInv, ReadSuppressions, HasRead, Exited
  <2>3. \A f \in Current : /\ f \in In(raw) /\ active[f] = raw[f]
                           /\ ~RightlySuppressed(f) \/ ~ReadsSuppressions
    BY <2>2, CurrentIsShown, ShownUnlessSuppressed DEF IInv, Types
  <2>4. \A f \in diff.new : f \in Current /\ f \notin diff.unchanged
    <3>1. CASE diff.made
      BY <3>1, DiffParts
    <3>2. CASE ~diff.made
      BY <3>2 DEF IInv, ReadBaseline, NoDiff
    <3>3. QED BY <3>1, <3>2
  <2>5. QED BY <2>1, <2>3, <2>4 DEF Blocking
<1>2. KnownBlocksOnlyWithExcuse
  <2> SUFFICES ASSUME Exited, diff.made, ~opts.write, NEW f \in diff.new \cap atWrite.raw,
                      f \in atWrite.active
      PROVE  Covers[f] \cap (atWrite.active \ In(active)) # {}
    BY DEF KnownBlocksOnlyWithExcuse
  <2>1. f \in Current /\ f \notin Deduplicated(atWrite.active)
    BY DiffParts
  <2>2. QED BY <2>1 DEF Current, Deduplicated
<1>3. QED BY <1>1, <1>2 DEF RedIsEarned

\* Whatever could not be read or written fails the run.
LEMMA ClosedFollows == IInv => FailsClosed
<1> SUFFICES ASSUME IInv, Exited PROVE FailsClosed
  BY DEF FailsClosed
<1>1. failed # {} => code = 1
  BY DEF IInv, Concluded, Exited, CiExitCode
<1>2. /\ opts.baseline /\ ~diff.made => failed # {}
      /\ opts.failOnNew > 0 /\ ~opts.baseline => failed # {}
      /\ opts.suppressions /\ supFile.status # "ok" => failed # {}
  BY DEF IInv, ReadSuppressions, ReadBaseline, HasRead, HasCompared, Exited
<1>3. Gating(opts) /\ "analysis_error" \in issueCodes => code = 1
  BY DEF IInv, Concluded, Exited, CiExitCode, ErrorCodes
<1>4. QED BY <1>1, <1>2, <1>3 DEF FailsClosed

\* The state of the gate has its types; a comparison lists findings that are shown,
\* each as new or as unchanged (cli/__init__.py:_output_result).
THEOREM TypeCorrect == GateSpec => []GateTypeOK
<1>1. QED BY Invariance, TypeFollows, PTL

\* Exit code 0 is earned: what is not shown is suppressed by an entry in force, told
\* of by a finding that is shown, or known; what expires blocks again; what is said
\* to be resolved is gone (cli/__init__.py:_ci_exit_code, baselines.py).
THEOREM GreenEarned == GateSpec => []GreenIsEarned
<1>1. IInv => GreenIsEarned
  BY GreenFollows, ExpiryFollows, ResolvedFollows DEF GreenIsEarned
<1>2. QED BY <1>1, Invariance, PTL

\* Exit code 2 has a finding that nobody suppressed to show for it, and one that was
\* there when the baseline was written blocks only with an excuse.
THEOREM RedEarned == GateSpec => []RedIsEarned
<1>1. QED BY Invariance, RedFollows, PTL

\* An input that cannot be used ends in exit code 1, whatever else the run does.
THEOREM GateFailsClosed == GateSpec => []FailsClosed
<1>1. QED BY Invariance, ClosedFollows, PTL

================================================================================
