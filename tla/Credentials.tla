----------------------------- MODULE Credentials -----------------------------
(***************************************************************************)
(* From the command line to the Authorization header: the flags of         *)
(* `publish' and `verify' (cli/src/main.rs, cmd/publish.rs, cmd/verify.rs),*)
(* the Vault and docker-config providers, and the two readers of the       *)
(* environment, that of the sinks (publish/src/core/registry_sink.rs) and  *)
(* that of the pull (cli/src/registry/credential_provider.rs).             *)
(*                                                                         *)
(* A flag, variable or field has the value "unset", "empty", "set", or     *)
(* "control": a text that no HTTP header may carry.  A credential is       *)
(*   err  : "none", "Cli" (exit 64) or "Auth" (the publisher's or puller's),*)
(*   kind : "Basic", "Bearer", or "none" for no Authorization header,      *)
(*   from : the source that supplied it,                                   *)
(*   text : the value of the token; a Basic pair is encoded, and "set".    *)
(***************************************************************************)
EXTENDS Integers, Sequences, FiniteSetsExt

NonEmpty(v) == v \notin {"unset", "empty"}

Anonymous == [err |-> "none", kind |-> "none", from |-> "nobody", text |-> "unset"]
Refused(err) == [Anonymous EXCEPT !.err = err]
Basic(from) == [err |-> "none", kind |-> "Basic", from |-> from, text |-> "set"]
Bearer(from, token) == [err |-> "none", kind |-> "Bearer", from |-> from, text |-> token]

-----------------------------------------------------------------------------
(* Vault: a secret engine answers a read of <<mount, key>>, two paths, with *)
(* [status, token, username, password]; a field may also be "mistyped".    *)

\* parse_base_path, on the segments of the path: the first "data" that has a
\* segment before it ends the mount.  <<>> stands for an error.
ParseBasePath(base) ==
  LET at == {k \in 2..Len(base) : base[k] = "data"}
      k  == Min(at)
  IN IF at = {} \/ SubSeq(base, 1, k - 1) = <<"">> THEN <<>>
     ELSE <<SubSeq(base, 1, k - 1), SubSeq(base, k + 1, Len(base))>>

\* map_response_to_auth_mode: a token wins, an empty one included.
VaultAuth(secret) ==
  IF "mistyped" \in {secret.token, secret.username, secret.password} THEN Refused("Cli")
  ELSE IF secret.token # "unset"
       THEN IF secret.token = "empty" THEN Refused("Cli") ELSE Bearer("vault", secret.token)
  ELSE IF NonEmpty(secret.username) /\ NonEmpty(secret.password) THEN Basic("vault")
  ELSE Refused("Cli")

\* Mutant: a registry without a secret is one without credentials.
ResolveVaultSoft(world, base, host) ==
  LET path == ParseBasePath(base)
  IN IF ~NonEmpty(world.env.vaultAddr) \/ ~NonEmpty(world.env.vaultToken) THEN Anonymous
     ELSE IF path = <<>> THEN Refused("Cli")
     ELSE LET answer == world.vault[<<path[1], Append(path[2], host)>>]
          IN IF answer.status = "ok" THEN VaultAuth(answer)
             ELSE IF answer.status = "404" THEN Anonymous ELSE Refused("Cli")

\* resolve_vault_for_registry: no address or token, a path without a mount, no
\* answer, a refusal, and no secret for this host all end the command.
ResolveVault(world, base, host) ==
  LET path == ParseBasePath(base)
  IN IF ~NonEmpty(world.env.vaultAddr) \/ ~NonEmpty(world.env.vaultToken) \/ path = <<>>
     THEN Refused("Cli")
     ELSE LET answer == world.vault[<<path[1], Append(path[2], host)>>]
          IN IF answer.status = "ok" THEN VaultAuth(answer) ELSE Refused("Cli")

-----------------------------------------------------------------------------
(* Docker: a file is [state, auths]; auths maps a key, [scheme, host], to  *)
(* an entry [auth, identityToken, username, password].  auth is the pair   *)
(* that the field decodes to, or how it fails to be one.                   *)

\* lookup_entry: the host itself, or else the host as an https URL.
Keys(host) == <<[scheme |-> "", host |-> host], [scheme |-> "https://", host |-> host]>>
Hits(auths, host) == {k \in DOMAIN Keys(host) : Keys(host)[k] \in DOMAIN auths}
LookupEntry(auths, host) == auths[Keys(host)[Min(Hits(auths, host))]]

\* map_entry_to_resolved, with decode_auth_field: auth decides if it is there at
\* all, then identitytoken, then the two plain fields.
DockerAuth(entry) ==
  IF entry.auth # "unset"
  THEN IF entry.auth = "user:pass" THEN Basic("docker") ELSE Refused("Cli")
  ELSE IF entry.identityToken # "unset"
       THEN IF entry.identityToken = "empty" THEN Refused("Cli")
            ELSE Bearer("docker", entry.identityToken)
  ELSE IF NonEmpty(entry.username) /\ NonEmpty(entry.password) THEN Basic("docker")
  ELSE Refused("Cli")

\* resolve_docker_config_for_registry: no home directory for the default path, no
\* file, a file that cannot be read or parsed, and no entry end the command.
ResolveDocker(world, configPath, host) ==
  LET file == world.docker
  IN IF (configPath \/ world.home) /\ file.state = "ok" /\ Hits(file.auths, host) # {}
     THEN DockerAuth(LookupEntry(file.auths, host))
     ELSE Refused("Cli")

-----------------------------------------------------------------------------
(* The command line.  A command is [noAuth, auth, token, username,         *)
(* password, configPath, base, host]; clap fills an absent flag from the   *)
(* environment.                                                            *)

Arg(flag, variable) == IF flag # "unset" THEN flag ELSE variable

\* parse_auth_mode and resolve_for_registry.  AuthMode::Env is left to the wire
\* side, which makes fromEnv of it.  Features are those of the binary.
ResolveMode(cmd, world, fromEnv) ==
  LET token == Arg(cmd.token, world.env.token)
      username == Arg(cmd.username, world.env.username)
      password == Arg(cmd.password, world.env.password)
  IN CASE cmd.auth = "env" -> fromEnv
       [] cmd.auth = "basic" /\ NonEmpty(username) /\ NonEmpty(password) -> Basic("args")
       [] cmd.auth = "bearer" /\ NonEmpty(token) -> Bearer("args", token)
       [] cmd.auth = "vault" /\ "vault" \in world.features ->
            IF cmd.base = <<>> THEN Refused("Cli") ELSE ResolveVault(world, cmd.base, cmd.host)
       [] cmd.auth = "docker-config" /\ "docker-config" \in world.features ->
            ResolveDocker(world, cmd.configPath, cmd.host)
       [] OTHER -> Refused("Cli")

\* --no-auth conflicts with another mode and with every credential, those that
\* clap has taken from the environment included; the Vault path is not asked for.
Conflict(cmd, world) ==
  \/ cmd.auth # "env" \/ cmd.configPath
  \/ Arg(cmd.token, world.env.token) # "unset"
  \/ Arg(cmd.username, world.env.username) # "unset"
  \/ Arg(cmd.password, world.env.password) # "unset"

\* RegistryAuth::FromEnv in the sinks: half a pair, or nothing, is an error.
SinkEnv(env) ==
  IF env.token # "unset"
  THEN IF env.token = "empty" THEN Refused("Auth") ELSE Bearer("env", env.token)
  ELSE IF NonEmpty(env.username) /\ NonEmpty(env.password) THEN Basic("env")
  ELSE Refused("Auth")

\* Mutant: an empty token is no token.
PullEnvLenient(env) ==
  IF NonEmpty(env.token) THEN Bearer("env", env.token)
  ELSE IF "unset" \in {env.username, env.password} THEN Anonymous
  ELSE IF NonEmpty(env.username) /\ NonEmpty(env.password) THEN Basic("env")
  ELSE Refused("Auth")

\* EnvProvider, ahead of AnonymousProvider: half a pair is none.
PullEnv(env) ==
  IF env.token # "unset"
  THEN IF env.token = "empty" THEN Refused("Auth") ELSE Bearer("env", env.token)
  ELSE IF "unset" \in {env.username, env.password} THEN Anonymous
  ELSE IF NonEmpty(env.username) /\ NonEmpty(env.password) THEN Basic("env")
  ELSE Refused("Auth")

\* HeaderValue::from_str on what the credential makes.
Header(cred) == IF cred.text = "control" THEN Refused("Auth") ELSE cred

\* A command, up to the Authorization header of its first request.
AuthHeader(cmd, world, fromEnv) ==
  IF cmd.noAuth
  THEN IF Conflict(cmd, world) THEN Refused("Cli") ELSE Anonymous
  ELSE Header(ResolveMode(cmd, world, fromEnv))

PublishHeader(cmd, world) == AuthHeader(cmd, world, SinkEnv(world.env))
PullHeader(cmd, world) == AuthHeader(cmd, world, PullEnv(world.env))

-----------------------------------------------------------------------------
(* Correctness, for a command, the world it runs in, and the headers that   *)
(* publish and pull send.  The text "foreign" marks what Vault and the      *)
(* docker file hold for another registry.                                   *)

\* The environment has neither a token nor both halves of a pair.
EnvIncomplete(env) == env.token = "unset" /\ "unset" \in {env.username, env.password}

\* The source that a mode names.
Source(auth) == CASE auth = "env"                 -> "env"
                  [] auth \in {"basic", "bearer"} -> "args"
                  [] auth = "vault"               -> "vault"
                  [] auth = "docker-config"       -> "docker"

\* "The provider that mode names is the one that runs", and a broken one "does not
\* silently fall through to anonymous": a request carries no credentials only if
\* the operator has said so, or when a pull finds none in the environment; those
\* that it carries are of the source that is named, and of this registry.
NoFallThrough(cmd, world, publish, pull) ==
  \A c \in {publish, pull} :
    c.err = "none" =>
      IF c.kind = "none"
      THEN cmd.noAuth \/ (c = pull /\ cmd.auth = "env" /\ EnvIncomplete(world.env))
      ELSE ~cmd.noAuth /\ c.from = Source(cmd.auth) /\ c.text # "foreign"

\* An image is pulled with the credentials that it was published with: under one
\* command line and environment the two commands send the same header or both
\* refuse, except that where the environment has none the publisher refuses and
\* the puller goes without.
HeadersAgree(cmd, world, publish, pull) ==
  IF ~cmd.noAuth /\ cmd.auth = "env" /\ EnvIncomplete(world.env)
  THEN publish = Refused("Auth") /\ pull = Anonymous
  ELSE publish = pull
=============================================================================
