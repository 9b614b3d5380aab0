---------------------------- MODULE MCCredentials ----------------------------
(***************************************************************************)
(* Every command line over the modes, with its flags and the environment   *)
(* unset, empty or set; every state of Vault and of the docker file, with  *)
(* credentials of another registry beside those of the one that is asked.  *)
(***************************************************************************)
EXTENDS Credentials, TLC

Host == "registry"

Values == {"unset", "empty", "set"}
Tokens == Values \cup {"control"}

NoVariables == [token |-> "unset", username |-> "unset", password |-> "unset",
                vaultAddr |-> "unset", vaultToken |-> "unset"]
Variables == [token : Tokens, username : Values, password : Values,
              vaultAddr : {"unset"}, vaultToken : {"unset"}]

Plain == [noAuth |-> FALSE, auth |-> "env", token |-> "unset", username |-> "unset",
          password |-> "unset", configPath |-> FALSE, base |-> <<"secret", "data", "oci">>,
          host |-> Host]

\* A secret, or an entry, of another registry.
Foreign == [status |-> "ok", token |-> "foreign", username |-> "unset", password |-> "unset"]
ForeignEntry == [auth |-> "unset", identityToken |-> "foreign", username |-> "unset",
                 password |-> "unset"]

Secrets ==
  [status : {"ok"}, token : Tokens \cup {"mistyped"}, username : Values, password : Values]
    \cup [status : {"404", "denied", "down"}, token : {"unset"}, username : {"unset"},
          password : {"unset"}]

\* The engine `secret' has a secret for the host under `oci' and at its root; one
\* for another registry; and the engine `secret/data', that a path could be taken
\* to name, has one for the host that is not meant.
Vault(secret) ==
  LET none == [secret EXCEPT !.status = "404"]
      mount == {<<"secret">>, <<"secret", "data">>}
      key == {<<Host>>, <<"oci", Host>>, <<"data", Host>>, <<"data", "oci", Host>>, <<"other">>}
  IN [at \in mount \X key |->
        IF at \in {<<<<"secret">>, <<"oci", Host>>>>, <<<<"secret">>, <<Host>>>>} THEN secret
        ELSE IF at[1] = <<"secret", "data">> \/ at[2] = <<"other">> THEN Foreign ELSE none]

Bases == {<<>>, <<"secret", "data", "oci">>, <<"secret", "data">>, <<"secret", "oci">>,
          <<"", "data", "oci">>, <<"data", "oci">>, <<"secret", "data", "data">>,
          <<"secret", "data", "data", "oci">>}

Entries == [auth : {"unset", "empty", "garbage", "no colon", "user:", ":pass", "user:pass"},
            identityToken : Values, username : Values, password : Values]

Key(scheme, host) == [scheme |-> scheme, host |-> host]

Auths(entry) ==
  LET other == Key("", "registry.other") :> ForeignEntry
  IN {other, Key("", Host) :> entry @@ other,
      Key("https://", Host) :> entry @@ other,
      Key("", Host) :> entry @@ Key("https://", Host) :> ForeignEntry @@ other,
      Key("http://", Host) :> entry @@ other}

DockerFiles ==
  {[state |-> "ok", auths |-> a] : a \in UNION {Auths(e) : e \in Entries}}
    \cup {[state |-> s, auths |-> Key("", Host) :> ForeignEntry] :
            s \in {"missing", "unreadable", "malformed"}}

NoSecret == [Foreign EXCEPT !.status = "404"]
NoDocker == [state |-> "missing", auths |-> Key("", Host) :> ForeignEntry]
World == [env |-> NoVariables, vault |-> Vault(NoSecret), docker |-> NoDocker, home |-> TRUE,
          features |-> {"vault", "docker-config"}]

Flags == {[Plain EXCEPT !.noAuth = noAuth, !.auth = auth, !.token = token, !.username = username,
                        !.password = password] :
            noAuth \in BOOLEAN, auth \in {"env", "basic", "bearer", "vault", "docker-config"},
            token \in Tokens, username, password \in Values}

\* The environment and the flags, in a build without the optional providers; Vault
\* under every base path; the docker file.
MCCommands ==
  [cmd   : {c \in Flags : c.noAuth => c.auth = "env"},
   world : {[World EXCEPT !.env = env, !.features = {}] : env \in Variables}]
  \cup
  [cmd   : {[Plain EXCEPT !.auth = "vault", !.base = base, !.noAuth = noAuth] :
              base \in Bases, noAuth \in BOOLEAN},
   world : {[World EXCEPT !.vault = Vault(secret), !.env.vaultAddr = addr,
                          !.env.vaultToken = token] :
              secret \in Secrets, addr, token \in Values}]
  \cup
  [cmd   : {[Plain EXCEPT !.auth = auth, !.configPath = configPath] :
              auth \in {"env", "docker-config"}, configPath \in BOOLEAN},
   world : {[World EXCEPT !.docker = file, !.home = home] :
              file \in DockerFiles, home \in BOOLEAN}]
=============================================================================
