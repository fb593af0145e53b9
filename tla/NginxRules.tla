------------------------------- MODULE NginxRules -------------------------------
(***************************************************************************)
(* The rules of nginx together: local/nginx/rules_runner.py runs them all,  *)
(* one after the other, on one configuration. A rule looks at its own       *)
(* directives only, so `topic` says which of them a configuration is made   *)
(* of, and the rules for these are run.                                     *)
(***************************************************************************)
VARIABLES topic, blocks, dirs, findings

ruleVars == <<blocks, dirs, findings>>

Serving == INSTANCE NginxServerRules
Limits == INSTANCE NginxLimitRules
Headers == INSTANCE NginxHeaderRules
Admission == INSTANCE NginxAccessRules

\* What nginx makes sure of before it runs a configuration.
Configuration ==
    /\ topic = "tls" => Serving!TlsConfiguration
    /\ topic = "servers" => Serving!AnsweringConfiguration
    /\ topic \in {"sizes", "zones", "listings"} => Limits!LimitConfiguration
    /\ topic = "headers" => Headers!HeaderConfiguration
    /\ topic \in {"access", "files", "methods"} => Admission!AccessConfiguration
    /\ topic = "upstream" => Headers!UpstreamConfiguration

Rules ==
    \/ topic = "tls" /\ Serving!TlsCheck
    \/ topic = "servers" /\ Serving!AnsweringCheck
    \/ topic \in {"sizes", "zones", "listings"} /\ Limits!Check
    \/ topic = "headers" /\ Headers!HeaderCheck
    \/ topic \in {"access", "files", "methods"} /\ Admission!Check
    \/ topic \in {"taint", "upstream"} /\ Headers!TaintCheck

\* The rules look once at any such configuration.
RulesSpec ==
    /\ Configuration /\ findings = Serving!Unchecked
    /\ [][Rules /\ UNCHANGED topic]_<<topic, ruleVars>>

-----------------------------------------------------------------------------
(* Properties: those of the modules of the rules. *)

\* Where no rule reports it, what is in force is set up as it should be, wherever a
\* directive stands: TLS, which server answers, sizes, limits, headers, who may enter a
\* sensitive location, methods, and what upstreams are told.
SettingRulesAreSound ==
    /\ Configuration
    /\ topic = "tls" => Serving!SilenceIsEarned /\ Serving!AlarmIsReal /\ Serving!UpstreamIsVerified
    /\ topic = "servers" =>
          Serving!UnknownHostsAreRejected /\ Serving!RedirectIsComplete /\ Serving!NoPasswordInClear
    /\ topic = "sizes" => Limits!NothingRunsUnbounded
    /\ topic = "zones" => Limits!LimitsWork
    /\ topic = "listings" => Limits!ListingsAreLimited
    /\ topic = "headers" =>
          /\ Headers!CspIsEverywhere /\ Headers!UnsafeCspIsReported
          /\ Headers!ServerHeadersAreSent /\ Headers!AltSvcIsTold
    /\ topic = "access" => Admission!SensitiveIsRestricted
    /\ topic = "methods" => Admission!MethodsAreRestricted
    /\ topic = "upstream" => Headers!SourceIsPassedOn

\* Where no rule reports it, a request is not answered with a file that should not be
\* served, and takes no value to where it is used (NginxAccessRules, NginxHeaderRules).
RequestRulesAreSound ==
    /\ topic = "files" => Admission!ArtifactsAreDenied /\ Admission!UploadsDoNotRun
    /\ topic = "taint" => Headers!TaintIsFound /\ Headers!TaintIsReal

=============================================================================
