--------------------------- MODULE MC_LocalAnalysis ---------------------------
(***************************************************************************)
(* One rule of each kind the runners treat differently: an nginx rule that *)
(* needs a directive and is opt-in, an Apache AST rule, an opt-in .htaccess *)
(* rule, a universal rule that three analyses filter, an external rule.    *)
(* Two .htaccess files shared in every way by up to two virtual hosts, and *)
(* two web.config files, make every rule be revisited.                     *)
(*                                                                         *)
(* Beside an analysis, a recorder by itself, driven by arbitrary callers.  *)
(* It treats each rule on its own; the only coupling between rules is the  *)
(* order of `selected`, for which the two Apache rules are enough.         *)
(***************************************************************************)
EXTENDS LocalAnalysis, ExecutionRecorder

VARIABLE part   \* what is run: "analysis" or "recorder"; the other rests

localVars == <<part, vars, recorderVars>>

MCRule == {"n", "a", "h", "u", "e"}
MCRunOrder == <<"a", "h", "n", "u", "e">>

ByRule(n, a, h, u, e) ==
    [r \in MCRule |-> IF r = "n" THEN n ELSE IF r = "a" THEN a ELSE IF r = "h" THEN h
                      ELSE IF r = "u" THEN u ELSE e]

MCStageOf  == ByRule("ast", "ast", "htaccess", "normalized", "probe")
MCCategory == ByRule("local", "local", "local", "universal", "external")
MCServerOf == ByRule("nginx", "apache", "apache", "any", "any")
MCOptIn          == {"n", "h"}
MCNeedsDirective == {"n"}
\* A requirement is examined on its own, rule by rule: none and all are enough.
MCRequirements   == {{}, MCRule}
MCSuperseded == [s \in Server |-> IF s = "iis" THEN {} ELSE {"u"}]
MCReported   == {"a", "h"}

\* An analysis whose main file did not decode, as DecodeErrorEscapes leaves it.
AnalysisRests ==
    /\ phase = "raised" /\ job = (CHOOSE j \in Jobs : j.server # "apache")
    /\ agenda = <<>> /\ queue = {} /\ pass = NoPass /\ visit = 0
    /\ recorder = EmptyRecorder
    /\ issues = {} /\ findings = {} /\ calls = {} /\ hit = {}
    /\ manifest = NoManifest /\ loaded = {}

LocalInit ==
    /\ RecorderInit
    /\ \/ part = "analysis" /\ Init
       \/ part = "recorder" /\ AnalysisRests

LocalNext ==
    /\ UNCHANGED part
    /\ \/ part = "analysis" /\ Next /\ UNCHANGED recorderVars
       \/ part = "recorder" /\ RecorderNext /\ UNCHANGED vars

LocalSpec == LocalInit /\ [][LocalNext]_localVars /\ WF_vars(part = "analysis" /\ Next)
===============================================================================
