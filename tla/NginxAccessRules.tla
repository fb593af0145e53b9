----------------------------- MODULE NginxAccessRules -----------------------------
(***************************************************************************)
(* The rules for who may ask an nginx server for what (local/nginx/rules/): *)
(* sensitive locations, files that are not to be served, uploads, methods,  *)
(* aliases. Locations stand for their modifier and for what they match.     *)
(***************************************************************************)
EXTENDS NginxConfig

LocationBlocks == Named("location")
Args(c) == blocks[c].args
Regex == {"~ hidden", "~ files", "~ manifests", "~ php", "~ uploads php"}

\* What a pattern names: extensions, markers and labels of sensitive_artifact_policy.
Names(args) ==
    CASE args = "~ hidden" -> {"hidden"} [] args = "~ files" -> {"config", "backup"}
      [] args = "~ manifests" -> {"manifest"} [] args = "~ php" -> {"script", "uploaded script"}
      [] args = "~ uploads php" -> {"uploaded script"} [] OTHER -> {}
Blocking(c) == Has(c, "deny", {"all"}) \/ Has(c, "return", {"403"})

-----------------------------------------------------------------------------
(* Files that are not to be served. *)

\* Hidden files: anywhere in the server, and by `deny all` only.
missing_hidden_files_deny ==
    {At(s) : s \in {t \in Servers :
        /\ ~OnlyRedirects(t)
        /\ \A c \in Inside(t) \cap LocationBlocks : "hidden" \in Names(Args(c)) => ~Has(c, "deny", {"all"})}}
Denies(s, file) == \E c \in Children(s, "location") : file \in Names(Args(c)) /\ Blocking(c)
missing_backup_file_deny ==
    {At(s) : s \in {t \in Servers : ~OnlyRedirects(t) /\ ~Denies(t, "backup")}}
\* A location for hidden files covers the labels that are hidden files.
missing_generated_artifact_deny ==
    {At(s) : s \in {t \in Servers : ~OnlyRedirects(t) /\ ~(Denies(t, "manifest") /\ Denies(t, "hidden"))}}
sensitive_config_files_restricted ==
    {At(s) : s \in {t \in Servers :
        ~OnlyRedirects(t) /\ (\E c \in Children(t, "location") : CatchAll(c)) /\ ~Denies(t, "config")}}

-----------------------------------------------------------------------------
(* Uploads. *)

Upload(c) == Args(c) \in {"/uploads/", "^~ /uploads/"}
ScriptLocation(c) == "uploaded script" \in Names(Args(c))
MutantScriptsRestricted(c) ==
    \/ \E n \in Children(c, "location") : ScriptLocation(n)
    \/ \E n \in Children(blocks[c].parent, "location") : Args(n) = "~ uploads php" /\ Blocking(n)
ScriptsRestricted(c) ==
    \/ \E n \in Children(c, "location") : ScriptLocation(n) /\ Blocking(n)
    \/ \E n \in Children(blocks[c].parent, "location") : Args(n) = "~ uploads php" /\ Blocking(n)
executable_scripts_allowed_in_uploads ==
    {At(c) : c \in {d \in LocationBlocks : Upload(d) /\ blocks[d].parent \in Servers /\ ~ScriptsRestricted(d)}}

\* Also for regular expressions that name uploads.
NoLimitExcept(c) == Children(c, "limit_except") = {}
missing_allowed_methods_restriction_for_uploads ==
    {At(c) : c \in {d \in LocationBlocks : (Upload(d) \/ Args(d) = "~ uploads php") /\ NoLimitExcept(d)}}
missing_http_method_restrictions ==
    {At(c) : c \in {d \in LocationBlocks :
        (Upload(d) \/ Args(d) \in {"/admin", "~ uploads php"}) /\ NoLimitExcept(d)}}

-----------------------------------------------------------------------------
(* Sensitive locations. The first rule collects what any block around a location     *)
(* says; the second looks at what is in force, and only at locations that have some  *)
(* restriction.                                                                      *)

Sensitive == {c \in LocationBlocks : Args(c) \in {"/admin", "= /admin"}}
InChain(c, d) == UNION {Here(b, d) : b \in Around(c)}
AuthOn(i) == dirs[i].value # "off"
HasAccessRestriction(c) ==
    InChain(c, "deny") # {} \/ \E i \in InChain(c, "auth_basic") : AuthOn(i)
missing_access_restrictions_on_sensitive_locations ==
    {At(c) : c \in {d \in Sensitive : ~HasAccessRestriction(d)}}

\* _effective_access_directives, _effective_auth_basic, _effective_satisfy
NearestOf(c, names) ==
    LET here(b) == UNION {Here(b, d) : d \in names}
        up[b \in Blocks] == IF here(b) # {} \/ blocks[b].parent = Main THEN here(b) ELSE up[blocks[b].parent]
    IN up[c]
EffectiveAccess(c) == NearestOf(c, {"allow", "deny"})
AuthRequired(c) == Value(NearestOf(c, {"auth_basic"})) \notin {"none", "off"}
BasicRestriction(c) == (\E i \in EffectiveAccess(c) : dirs[i].name = "deny") \/ AuthRequired(c)
MutantRestrictiveFilter(c) == \E i \in EffectiveAccess(c) : dirs[i].name = "deny" /\ dirs[i].value = "all"
RestrictiveFilter(c) ==
    LET all == {i \in EffectiveAccess(c) : dirs[i].value = "all"}
    IN /\ all # {} /\ dirs[Min(all)].name = "deny"
       /\ ~(Value(NearestOf(c, {"satisfy"})) = "any" /\ AuthRequired(c))
sensitive_location_missing_ip_filter ==
    {At(c) : c \in {d \in Sensitive : BasicRestriction(d) /\ ~RestrictiveFilter(d)}}
allow_all_with_deny_all ==
    {At(c) : c \in {d \in LocationBlocks : Has(d, "allow", {"all"}) /\ Has(d, "deny", {"all"})}}

-----------------------------------------------------------------------------
(* Methods, in the location for everything. *)

Exposes(c) ==
    \/ \E d \in {"proxy_pass", "fastcgi_pass", "uwsgi_pass", "scgi_pass", "grpc_pass", "memcached_pass"} : Here(c, d) # {}
    \/ Children(c, "if") \cup Children(c, "limit_except") # {}
RejectingReturn(b) == Has(b, "return", {"403", "405", "444"})
\* A map that marks the methods that are not approved, and a condition on it.
MethodMap == \E m \in Named("map") : blocks[m].args = "$request_method $bad" /\ Has(m, "map", {"approved"})
MutantMethodPolicy(c) ==
    \/ \E l \in Children(c, "limit_except") : Args(l) = "approved"
    \/ \E f \in Children(c, "if") : RejectingReturn(f) /\ (Args(f) = "not approved" \/ (Args(f) = "$bad" /\ MethodMap))
MethodPolicy(c) ==
    \/ \E l \in Children(c, "limit_except") :
          Args(l) = "approved" /\ (Has(l, "deny", {"all"}) \/ RejectingReturn(l))
    \/ \E f \in Children(c, "if") :
          RejectingReturn(f) /\ (Args(f) = "not approved" \/ (Args(f) = "$bad" /\ MethodMap))
sitewide_http_method_policy_missing ==
    {At(s) : s \in {t \in Servers :
        LET roots == {c \in Children(t, "location") : CatchAll(c)}
        IN /\ ~OnlyRedirects(t) /\ \E c \in roots : Exposes(c)
           /\ \A c \in roots : ~MethodPolicy(c)}}
http_method_policy_allows_unapproved ==
    {At(l) : l \in {b \in Named("limit_except") : Args(b) = "unapproved"}}

-----------------------------------------------------------------------------
(* Aliases, and single directives. *)

Slash(text) == text \in {"/", "^~ /", "/uploads/", "^~ /uploads/", "dir/"}
PrefixLocation(c) == Args(c) \notin Regex /\ Args(c) # "= /admin"
alias_traversal_classic_pattern ==
    {On(i) : i \in {j \in Anywhere("alias") :
        LET c == dirs[j].in
        IN c \in LocationBlocks /\ PrefixLocation(c) /\ ~Slash(Args(c)) /\ Slash(dirs[j].value)}}
alias_without_trailing_slash ==
    {On(i) : i \in {j \in Anywhere("alias") :
        LET c == dirs[j].in
        IN c \in LocationBlocks /\ Args(c) \in {"/", "/uploads/"} /\ ~Slash(dirs[j].value)}}
dav_move_copy_alias_prefix_location ==
    {On(i) : i \in {j \in Anywhere("dav_methods") :
        LET c == dirs[j].in
        IN /\ c \in LocationBlocks /\ PrefixLocation(c) /\ Here(c, "alias") # {}
           /\ dirs[j].value \in {"copy", "move"}}}
if_in_location == {At(f) : f \in UNION {{b \in Inside(c) : blocks[b].name = "if"} : c \in LocationBlocks}}
merge_slashes_off == {On(i) : i \in {j \in Anywhere("merge_slashes") : dirs[j].value = "off"}}
server_tokens_on == {On(i) : i \in {j \in Anywhere("server_tokens") : dirs[j].value = "on"}}

Check ==
    /\ findings = Unchecked
    /\ findings' =
        [missing_hidden_files_deny |-> missing_hidden_files_deny,
         missing_backup_file_deny |-> missing_backup_file_deny,
         missing_generated_artifact_deny |-> missing_generated_artifact_deny,
         sensitive_config_files_restricted |-> sensitive_config_files_restricted,
         executable_scripts_allowed_in_uploads |-> executable_scripts_allowed_in_uploads,
         missing_allowed_methods_restriction_for_uploads |->
             missing_allowed_methods_restriction_for_uploads,
         missing_http_method_restrictions |-> missing_http_method_restrictions,
         missing_access_restrictions_on_sensitive_locations |->
             missing_access_restrictions_on_sensitive_locations,
         sensitive_location_missing_ip_filter |-> sensitive_location_missing_ip_filter,
         allow_all_with_deny_all |-> allow_all_with_deny_all,
         sitewide_http_method_policy_missing |-> sitewide_http_method_policy_missing,
         http_method_policy_allows_unapproved |-> http_method_policy_allows_unapproved,
         alias_traversal_classic_pattern |-> alias_traversal_classic_pattern,
         alias_without_trailing_slash |-> alias_without_trailing_slash,
         dav_move_copy_alias_prefix_location |-> dav_move_copy_alias_prefix_location,
         if_in_location |-> if_in_location, merge_slashes_off |-> merge_slashes_off,
         server_tokens_on |-> server_tokens_on]
    /\ UNCHANGED <<blocks, dirs>>

-----------------------------------------------------------------------------
(* Properties. *)

Checked == findings # Unchecked
Says(r, b) == At(b) \in findings[r]

\* The location of a server that answers: the one with the longest prefix and, in it,
\* what is nested there; else the first regular expression, unless the prefix forbids
\* that they are asked.
Matches(args, file) ==
    \/ args \in {"/", "^~ /"} \/ file \in Names(args)
    \/ args \in {"/uploads/", "^~ /uploads/"} /\ file = "uploaded script"
Answering(s, file) ==
    LET of(b) == {c \in Children(b, "location") : Matches(Args(c), file)}
        find[b \in Blocks] ==
            LET prefixes == {c \in of(b) : Args(c) \notin Regex}
                longest == {c \in prefixes : Args(c) \notin {"/", "^~ /"} \/ prefixes \subseteq {d \in prefixes : Args(d) \in {"/", "^~ /"}}}
                inner == IF longest = {} THEN <<b, FALSE>> ELSE find[Min(longest)]
                regex == {c \in of(b) : Args(c) \in Regex}
                asked == \A c \in longest : Args(c) \notin {"^~ /", "^~ /uploads/"}
            IN IF inner[2] \/ ~asked \/ regex = {} THEN inner ELSE <<find[Min(regex)][1], TRUE>>
    IN find[s][1]

\* Rules of access are in `http`, or in it; a server has one location for everything.
AccessConfiguration ==
    /\ IsConfiguration
    /\ \A d \in {"allow", "deny", "auth_basic", "satisfy"} : Here(Main, d) = {}
    /\ \A s \in Servers : \A c, d \in {e \in Children(s, "location") : CatchAll(e)} : c = d

\* The rules look once at any such configuration.
AccessSpec == AccessConfiguration /\ findings = Unchecked /\ [][Check]_vars

\* Rules of access: those of the nearest block around that has any, and of these the first
\* that matches decides; by `satisfy any` a password will do instead. A stranger is matched
\* by `all` only.
Access(b) ==
    {i \in Anywhere("allow") \cup Anywhere("deny") :
        /\ dirs[i].in \in Around(b)
        /\ \A c \in Around(b) \ Around(dirs[i].in) : Here(c, "allow") \cup Here(c, "deny") = {}}
StrangerDenied(b) ==
    \E i \in Access(b) : /\ dirs[i].name = "deny" /\ dirs[i].value = "all"
                         /\ \A j \in Access(b) : j < i => dirs[j].value # "all"
Refused(b) == StrangerDenied(b) \/ Has(b, "return", {"403"})
PasswordSuffices(b) == Runs(b, "satisfy") = "any" /\ Runs(b, "auth_basic") \notin {"none", "off"}

\* A block around the location refuses or asks for a password, and what is in force in it
\* does neither.
TakenBack(c) ==
    /\ \E b \in Around(c) : Here(b, "deny") # {} \/ \E i \in Here(b, "auth_basic") : dirs[i].value # "off"
    /\ \A i \in Access(c) : dirs[i].name # "deny"
    /\ Runs(c, "auth_basic") \in {"none", "off"}

\* No stranger reaches a sensitive location that is not reported, nor by a password
\* alone, unless it takes back what a block around it says, of which one rule takes note
\* and the other none; and one that is reported can be reached so.
SensitiveIsRestricted ==
    Checked => \A c \in Sensitive :
        Says("missing_access_restrictions_on_sensitive_locations", c)
            \/ Says("sensitive_location_missing_ip_filter", c)
            <=> (~StrangerDenied(c) \/ PasswordSuffices(c)) /\ ~TakenBack(c)

\* A server that is not reported for a kind of file refuses requests for it, whatever
\* location answers them.
Silent(r, s) == ~Says(r, s) /\ \A c \in Inside(s) : ~Says("allow_all_with_deny_all", c)
ArtifactsAreDenied ==
    Checked => \A s \in {t \in Servers : ~OnlyRedirects(t)} :
        /\ Silent("missing_hidden_files_deny", s) => Refused(Answering(s, "hidden"))
        /\ Silent("missing_backup_file_deny", s) => Refused(Answering(s, "backup"))
        /\ Silent("missing_generated_artifact_deny", s) => Refused(Answering(s, "manifest"))
        /\ Silent("sensitive_config_files_restricted", s) =>
              \/ Refused(Answering(s, "config"))
              \/ \A c \in Children(s, "location") : ~CatchAll(c)

\* A script that was uploaded is not run: the location that answers for it refuses.
UploadsDoNotRun ==
    Checked => \A c \in {d \in LocationBlocks : Upload(d) /\ blocks[d].parent \in Servers} :
        Silent("executable_scripts_allowed_in_uploads", blocks[c].parent) =>
            Says("executable_scripts_allowed_in_uploads", c)
                \/ Refused(Answering(blocks[c].parent, "uploaded script"))

\* A server that passes on what its catch-all location gets, and is not reported, refuses
\* a method that is not approved there.
MethodRefused(c) ==
    \/ \E l \in Children(c, "limit_except") : Has(l, "deny", {"all"}) \/ RejectingReturn(l)
    \/ \E f \in Children(c, "if") :
          /\ RejectingReturn(f)
          /\ Args(f) = "not approved"
             \/ (Args(f) = "$bad" /\ \E m \in Named("map") : Has(m, "map", {"approved"}))
MethodsAreRestricted ==
    Checked => \A s \in {t \in Servers : ~OnlyRedirects(t)} :
        ~Says("sitewide_http_method_policy_missing", s) =>
            \A c \in {d \in Children(s, "location") : CatchAll(d) /\ Exposes(d)} : MethodRefused(c)

=============================================================================
