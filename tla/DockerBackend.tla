------------------------------ MODULE DockerBackend ------------------------------
(***************************************************************************)
(* dockerHelperBackend (docker_backend.go): what a request for a registry  *)
(* may be answered, from the allowlist of the shed and the host's Docker   *)
(* config.json, and what docker-credential-shed in the guest makes of it   *)
(* (dockercred/helper.go and cmd/docker-credential-shed/main.go).  The     *)
(* backend keeps nothing between requests, so this module has no state.    *)
(*                                                                         *)
(* A registry is written in several ways; key [host, form] is one spelling *)
(* of `host`, and form "bare" is the normalized one.  A file is            *)
(*   [state, helpers: [keys -> name], store: name or Unset,                *)
(*    auths: [keys -> {"valid", "empty", "undecodable"}]]                  *)
(***************************************************************************)
CONSTANTS Unset

\* normalizeRegistry: scheme, trailing slash and API version are stripped.
Normalize(key) == [host |-> key.host, form |-> "bare"]

\* lookupConfigMap: as given, then normalized, then any key with the same
\* normalized form, of which Go's map order picks one.
Lookup(map, key) ==
    LET alike == {k \in DOMAIN map : Normalize(k) = Normalize(key)}
    IN CASE key \in DOMAIN map -> {map[key]}
         [] key \notin DOMAIN map /\ Normalize(key) \in DOMAIN map -> {map[Normalize(key)]}
         [] OTHER -> {map[k] : k \in alike}

\* normalizeRegistrySet: the list holds in every spelling, unless all are allowed.
Allowed(policy, key) ==
    policy.allowAll \/ Normalize(key) \in {Normalize(k) : k \in policy.registries}

Answer(code, faulted) == [code |-> code, faulted |-> faulted]

\* execHelper: found on the PATH or in the extra directories, run with a deadline
\* of five seconds, its output parsed; anything else is HELPER_FAILED.
ExecHelper == {"OK", "HELPER_FAILED"}

\* decodeInlineAuth; a missing or empty entry is no credential at all.
Inline(file, key) ==
    IF Lookup(file.auths, key) = {} THEN {"CREDENTIALS_NOT_FOUND"}
    ELSE {CASE a = "valid" -> "OK"
            [] a = "undecodable" -> "INTERNAL_ERROR"
            [] OTHER -> "CREDENTIALS_NOT_FOUND" : a \in Lookup(file.auths, key)}

\* Mutant: when the registry's own helper fails, the inline entries are tried too.
FromHelper_FallsBack(file, key) ==
    {Answer("OK", FALSE)} \cup {Answer(c, TRUE) : c \in Inline(file, key)}

\* A registry with a helper of its own gets what that helper says.
FromHelper(file, key) == {Answer(c, c # "OK") : c \in ExecHelper}

\* The default store; when it fails, for whatever reason, the inline entries.
FromStore(file, key) ==
    {Answer("OK", FALSE)} \cup {Answer(c, TRUE) : c \in Inline(file, key)}

\* readConfig: a missing file is an empty one, of which nothing else is said.
Readable(file) == file.state # "unreadable"

\* GetCredentials
GetCredentials(file, policy, key) ==
    CASE ~Allowed(policy, key) -> {Answer("REGISTRY_NOT_ALLOWED", FALSE)}
      [] Allowed(policy, key) /\ ~Readable(file) -> {Answer("INTERNAL_ERROR", FALSE)}
      [] OTHER ->
           IF Lookup(file.helpers, key) # {} THEN FromHelper(file, key)
           ELSE IF file.store # Unset THEN FromStore(file, key)
           ELSE {Answer(c, FALSE) : c \in Inline(file, key)}

\* ListCredentials: registries with a helper or an inline entry, within the
\* allowlist; the default store is not asked.
ListCredentials(file, policy) ==
    {k \in DOMAIN file.helpers \cup DOMAIN file.auths : Allowed(policy, k)}

\* Helper.Get: only CREDENTIALS_NOT_FOUND is wrapped as ErrCredentialsNotFound.
HelperGet(code) ==
    CASE code = "OK" -> "found"
      [] code = "CREDENTIALS_NOT_FOUND" -> "ErrCredentialsNotFound"
      [] OTHER -> "error"

\* runGet: upon Docker's "not found" Docker pulls anonymously, another error aborts.
Pull(code) ==
    CASE HelperGet(code) = "found" -> "credential"
      [] HelperGet(code) = "ErrCredentialsNotFound" -> "anonymous"
      [] HelperGet(code) = "error" -> "aborted"

=============================================================================
