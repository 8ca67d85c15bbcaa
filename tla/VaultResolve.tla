---------------------------- MODULE VaultResolve ----------------------------
(***************************************************************************)
(* How a request gets its credentials (BuildSession and its callers in     *)
(* src/blobhttp_core.cpp): ResolveVaultAuth logs in to Vault, modelled in  *)
(* VaultToken, ResolveVaultSecrets and FetchVaultSecret                    *)
(* (include/http_config.hpp) take the secret from a process-wide cache or  *)
(* from Vault, and BuildSession chooses what the request carries.  The     *)
(* cache is checked under its mutex, the fetch runs without it, and the    *)
(* answer is stored under it again, stamped with the time of the store.    *)
(*                                                                         *)
(* A secret is modelled by the instant Vault served it: the secret served  *)
(* later is the newer one, and its age is what a caller cares about.  A    *)
(* secret is not the empty string.                                         *)
(***************************************************************************)
EXTENDS VaultToken

CONSTANTS
    Secrets,      \* cache keys of secrets: address, path and field
    NoPath,       \* an empty vault_path
    Configs,      \* the resolved configurations of requests
    TTL,          \* CACHE_TTL: five minutes
    FetchTime     \* the longest fetch: the 5 s timeout, and parsing the answer

ASSUME VaultAssumption ==
    /\ TTL \in Nat
    /\ FetchTime \in Nat
    /\ NoPath \notin Secrets
    /\ Configs # {}
    /\ Configs \subseteq [method  : {"jwt", "token"},        \* vault_auth_method
                          key     : Keys,                    \* what selects the login
                          token   : BOOLEAN,                 \* a vault_token is given
                          path    : Secrets \cup {NoPath},   \* vault_path
                          auth    : STRING,                  \* auth_type
                          bearer  : BOOLEAN,                 \* a bearer_token is given
                          expired : BOOLEAN,                 \* its expires_at is past
                          own     : BOOLEAN]                 \* an Authorization header is given

VARIABLES
    config,       \* the configuration of each thread's request
    stage,        \* where each thread is
    known,        \* the secrets that have an entry in the cache
    value,        \* the cached secret: when Vault served it
    fetchedAt,    \* fetched_at of its entry
    began,        \* when the thread's fetch began
    secret,       \* the secret a thread has, to store or to use
    gotAt,        \* history: when FetchVaultSecret returned it
    sent,         \* the credential the thread's request carries
    revoked       \* Vault has revoked the tokens issued before this instant

secretVars == <<known, value, fetchedAt>>
resolveVars == <<config, stage, secretVars, began, secret, gotAt, sent, revoked>>
allVars == <<vars, resolveVars>>

Stages == {"idle", "token", "check", "fetch", "store", "session", "sent"}

Credentials == {"", "own", "ticket", "given", "secret"}

ResolveTypeOK ==
    /\ TypeOK
    /\ config \in [Threads -> Configs]
    /\ stage \in [Threads -> Stages]
    /\ known \subseteq Secrets
    /\ value \in [Secrets -> Nat]
    /\ fetchedAt \in [Secrets -> Nat]
    /\ began \in [Threads -> Nat]
    /\ secret \in [Threads -> Nat]
    /\ gotAt \in [Threads -> Nat]
    /\ sent \in [Threads -> Credentials]
    /\ revoked \in Nat
    /\ \A t \in Threads :
        stage[t] \in {"token", "check", "fetch", "store"} => config[t].path \in Secrets

AnyConfig == CHOOSE c \in Configs : TRUE     \* of a thread without a request

ResolveInit ==
    /\ Init
    /\ config = [t \in Threads |-> AnyConfig]
    /\ stage = [t \in Threads |-> "idle"]
    /\ known = {}
    /\ value = [s \in Secrets |-> 0]
    /\ fetchedAt = [s \in Secrets |-> 0]
    /\ began = [t \in Threads |-> 0]
    /\ secret = [t \in Threads |-> 0]
    /\ gotAt = [t \in Threads |-> 0]
    /\ sent = [t \in Threads |-> ""]
    /\ revoked = 0

Enter(t, label) == stage' = [stage EXCEPT ![t] = label]

-----------------------------------------------------------------------------
(* ResolveVaultAuth and ResolveVaultSecrets *)

\* A login is only made for a secret: with method "jwt" and a path.
LogsIn(c) == c.method = "jwt" /\ c.path # NoPath

\* Without a path or a token the rest is skipped, and no error raised.
Fetches(c) == c.path # NoPath /\ (c.method = "jwt" \/ c.token)

\* A request.  The login comes first, whether or not the secret is cached.
ResolveVaultAuth(t, c) ==
    /\ stage[t] = "idle"
    /\ config' = [config EXCEPT ![t] = c]
    /\ IF LogsIn(c)
       THEN Call(t, c.key) /\ Enter(t, "token")
       ELSE UNCHANGED vars /\ Enter(t, IF Fetches(c) THEN "check" ELSE "session")
    /\ UNCHANGED <<secretVars, began, secret, gotAt, sent, revoked>>

\* An exception, or the end of the request: its locals are gone.
Return(t) ==
    /\ Leave(t)
    /\ config' = [config EXCEPT ![t] = AnyConfig]
    /\ began' = [began EXCEPT ![t] = 0]
    /\ secret' = [secret EXCEPT ![t] = 0]
    /\ gotAt' = [gotAt EXCEPT ![t] = 0]
    /\ sent' = [sent EXCEPT ![t] = ""]
    /\ Enter(t, "idle")
    /\ UNCHANGED <<secretVars, revoked>>

LoggingIn(t) ==
    /\ stage[t] = "token"
    /\ VaultTokenFromJwt(t)
    /\ Enter(t, IF pc'[t] = "returned" THEN "check" ELSE "token")
    /\ UNCHANGED <<config, secretVars, began, secret, gotAt, sent, revoked>>

LoginThrew(t) == stage[t] = "token" /\ pc[t] = "threw" /\ Return(t)

\* An entry is used while its age is below the TTL.
Fresh_Always(s) == s \in known
Fresh(s) == s \in known /\ clock - fetchedAt[s] < TTL

\* The check under the lock finds a fresh entry: it is the result.
SecretHit(t) ==
    /\ stage[t] = "check"
    /\ Fresh(config[t].path)
    /\ secret' = [secret EXCEPT ![t] = value[config[t].path]]
    /\ gotAt' = [gotAt EXCEPT ![t] = clock]
    /\ Enter(t, "session")
    /\ UNCHANGED <<vars, config, secretVars, began, sent, revoked>>

\* The lock is released and the request to Vault sent.
SecretMiss(t) ==
    /\ stage[t] = "check"
    /\ ~Fresh(config[t].path)
    /\ began' = [began EXCEPT ![t] = clock]
    /\ Enter(t, "fetch")
    /\ UNCHANGED <<vars, config, secretVars, secret, gotAt, sent, revoked>>

\* Vault honours a token until its lease ends or it is revoked.  (A vault_token
\* of the configuration is honoured or not, as Vault likes.)
Honoured(t) ==
    LogsIn(config[t]) => myIssued[t] >= revoked /\ clock <= myIssued[t] + myLease[t]

\* Vault answers 200.
Answer(t) ==
    /\ stage[t] = "fetch"
    /\ Honoured(t)
    /\ secret' = [secret EXCEPT ![t] = clock]
    /\ Enter(t, "store")
    /\ UNCHANGED <<vars, config, secretVars, began, gotAt, sent, revoked>>

\* Another status, the timeout, or an answer without the field: the request
\* fails.  The cached token is left alone, whatever the status says of it.
Fail(t) ==
    /\ stage[t] \in {"fetch", "store"}
    /\ Return(t)

\* The end of the entry's life taken for its start.
Stamp == clock

\* The answer is stored whatever the entry has become meanwhile.
SecretStore(t) ==
    /\ stage[t] = "store"
    /\ known' = known \cup {config[t].path}
    /\ value' = [value EXCEPT ![config[t].path] = secret[t]]
    /\ fetchedAt' = [fetchedAt EXCEPT ![config[t].path] = Stamp]
    /\ gotAt' = [gotAt EXCEPT ![t] = clock]
    /\ Enter(t, "session")
    /\ UNCHANGED <<vars, config, began, secret, sent, revoked>>

-----------------------------------------------------------------------------
(* BuildSession *)

\* What bearer_token holds after ResolveVaultSecrets: the secret replaces the
\* one that was given.
Bearer_Kept(c) ==
    IF c.bearer THEN "given" ELSE IF Fetches(c) /\ c.auth = "bearer" THEN "secret" ELSE ""
Bearer(c) ==
    IF Fetches(c) /\ c.auth = "bearer" THEN "secret" ELSE IF c.bearer THEN "given" ELSE ""

\* The expiry of the given token also refuses the secret that replaced it.
BearerExpired(c) ==
    c.auth = "bearer" /\ Bearer(c) # "" /\ ~c.own /\ c.expired

Credential(c) ==
    CASE c.own -> "own"
      [] ~c.own /\ c.auth = "negotiate" -> "ticket"
      [] ~c.own /\ c.auth = "bearer" -> Bearer(c)
      [] OTHER -> IF c.auth = "query_param" /\ Fetches(c) THEN "secret" ELSE ""

BuildSession(t) ==
    /\ stage[t] = "session"
    /\ ~BearerExpired(config[t])
    /\ sent' = [sent EXCEPT ![t] = Credential(config[t])]
    /\ Enter(t, "sent")
    /\ UNCHANGED <<vars, config, secretVars, began, secret, gotAt, revoked>>

\* The bearer token has expired, or there is no Kerberos ticket.
BuildFails(t) ==
    /\ stage[t] = "session"
    /\ BearerExpired(config[t]) \/ Credential(config[t]) = "ticket"
    /\ Return(t)

\* The request is made and its session dropped.
Perform(t) == stage[t] = "sent" /\ Return(t)

-----------------------------------------------------------------------------
\* The request's timeout: a fetch takes at most FetchTime from its request to
\* its store.
InTime_Never == TRUE
InTime == \A t \in Threads : stage[t] \in {"fetch", "store"} => clock - began[t] < FetchTime

ResolveTick == Tick /\ InTime /\ UNCHANGED resolveVars

\* Vault revokes the tokens it has issued (bound: once).
Revoke ==
    /\ revoked = 0
    /\ revoked' = clock
    /\ UNCHANGED <<vars, config, stage, secretVars, began, secret, gotAt, sent>>

ResolveStep(t) ==
    \/ \E c \in Configs : ResolveVaultAuth(t, c)
    \/ LoggingIn(t) \/ LoginThrew(t)
    \/ SecretHit(t) \/ SecretMiss(t) \/ Answer(t) \/ Fail(t) \/ SecretStore(t)
    \/ BuildSession(t) \/ BuildFails(t) \/ Perform(t)

ResolveNext == ResolveTick \/ Revoke \/ \E t \in Threads : ResolveStep(t)

ResolveSpec == ResolveInit /\ [][ResolveNext]_allVars

-----------------------------------------------------------------------------
\* No request gets a secret that Vault served longer ago than the TTL plus one
\* fetch, however fetches of the same secret race: a late store may put an older
\* secret back over a newer one, but not one older than its own fetch.
BoundedStaleness ==
    \A t \in Threads :
        stage[t] \in {"session", "sent"} /\ Fetches(config[t])
            => gotAt[t] - secret[t] <= TTL + FetchTime

\* Racing fetches of one secret may store in the opposite order of Vault's
\* answers, and nothing in the store prevents it; but the secret that is put back
\* is at most one fetch older than the one it replaces.
RegressionBounded ==
    [][ \A s \in Secrets : s \in known => value'[s] + FetchTime >= value[s] ]_allVars

\* Nothing drops a revoked token when Vault refuses it, so an outage ends only when
\* its entry expires and a later login replaces it.  A login that was under way at
\* the revocation may then store its dead token over the live one, and begin the
\* outage again; but only within one login of the revocation.  After that, a live
\* token is never replaced by a revoked one, whichever logins race.
OutageStaysOver ==
    [][ \A k \in cached :
          issued[k] >= revoked /\ issued'[k] < revoked => clock < revoked + LoginTime ]_allVars

\* A bearer request that names a secret and has a way to log in goes out with
\* that secret, or with the caller's own header, or not at all: never with the
\* token given beside the secret, never bare.
SecretOrNothing ==
    \A t \in Threads :
        LET c == config[t] IN
        stage[t] = "sent" /\ c.auth = "bearer" /\ c.path # NoPath
            /\ (c.method = "jwt" \/ c.token) /\ ~c.own
            => sent[t] = "secret" /\ c.path \in known
=============================================================================
