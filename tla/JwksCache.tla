----------------------------- MODULE JwksCache -----------------------------
(***************************************************************************)
(* Tokens signed with RSA keys: JWKSCache and verify_rs256_token of        *)
(* custos/jwks.py.                                                         *)
(*                                                                         *)
(* get_key holds the lock of the cache while it fetches a key document, so *)
(* a slow site keeps every other lookup waiting.  A fetch is two steps:    *)
(* the site reads its document and later the answer arrives; the clock and *)
(* the site's keys may move in between.                                    *)
(***************************************************************************)
EXTENDS Clock

CONSTANTS
    Keys,           \* the keys of the sites, records [url, kid]
    Rotating,       \* those that are published and withdrawn
    Https,          \* the urls that are https://
    Tokens,         \* records [kid, iss, signer, whole]
    JwksConfigs,    \* CUSTOS_TENANT_JWKS_URL and CUSTOS_TENANT_JWKS_URL_<SLUG>
    Unset,          \* a variable of the environment that is not set
    NoIssuer,       \* a token without iss
    ttl, Backoff,   \* ttl_seconds, _JWKS_REFRESH_BACKOFF_SECONDS
    Slow,           \* how long a fetch may take
    MaxChanges      \* bound on the changes of the published keys

ASSUME JwksAssumption ==
    /\ {ttl, Backoff, Slow, MaxChanges} \subseteq Nat
    /\ Rotating \subseteq Keys
    /\ \A k \in Keys : k = [url |-> k.url, kid |-> k.kid]
    /\ Slow <= Backoff /\ Backoff <= ttl

NoFetch == [none |-> TRUE]
NoVerdict == [none |-> TRUE]
NoEntry == [none |-> TRUE]
Never == -(Backoff + 1)     \* an attempt long ago

VARIABLES
    jwks_config,    \* fixed at the start: [default, own], own by issuer
    published,      \* the sites' documents: [out, since] for each key
    changes,        \* number of changes of them so far
    by_url,         \* _by_url: NoEntry or [keys, fetched]; only https:// urls get that far
    last_attempt,   \* _last_attempt
    fetching,       \* the fetch under the lock, with the token that waits for it
    failed,         \* history: the urls whose last attempt failed
    verdict         \* what verify_rs256_token just said

cache == <<jwks_config, published, changes, by_url, last_attempt, fetching, failed, verdict>>

\* The key pair of the service; its kid is CUSTOS_JWT_KEY_ID or a thumbprint.
ServiceKey == [url |-> "service", kid |-> "service"]

CacheInit ==
    /\ jwks_config \in JwksConfigs
    /\ published = [k \in Keys |-> [out |-> TRUE, since |-> 0]]
    /\ by_url = [u \in Https |-> NoEntry]
    /\ last_attempt = [u \in Https |-> Never] /\ failed = {}
    /\ changes = 0 /\ fetching = NoFetch /\ verdict = NoVerdict

tenant_jwks_url_for_issuer(iss) ==
    IF iss # NoIssuer /\ jwks_config.own[iss] # Unset THEN jwks_config.own[iss]
    ELSE jwks_config.default

\* The key a lookup finds decides: the signature must be its own, and the token
\* neither expired nor without a subject nor for another audience.
Decode(token, key) == token.signer = key /\ token.whole

Says(token, accepted) == verdict' = [token |-> token, accepted |-> accepted]

\* What get_key finds under a kid decides about the token.
Judge(token, url, entry) ==
    Says(token, /\ entry # NoEntry /\ token.kid \in entry.keys
                /\ Decode(token, [url |-> url, kid |-> token.kid]))

\* Variant: a document is fetched once.
NeedsFetch_Once(url) ==
    by_url[url] = NoEntry /\ now - last_attempt[url] > Backoff

NeedsFetch(url) ==
    /\ by_url[url] # NoEntry => now - by_url[url].fetched > ttl
    /\ now - last_attempt[url] > Backoff

\* Everything that needs no fetch: the service's own key, no url, a url that is
\* not https, and a document that is fresh or was tried just now.
verify_rs256_token(token) ==
    LET url == tenant_jwks_url_for_issuer(token.iss)
    IN  /\ \/ /\ token.kid = ServiceKey.kid
              /\ Says(token, Decode(token, ServiceKey))
           \/ /\ token.kid # ServiceKey.kid /\ url \notin Https
              /\ Says(token, FALSE)
           \/ /\ token.kid # ServiceKey.kid /\ url \in Https
              /\ fetching = NoFetch /\ ~NeedsFetch(url)
              /\ Judge(token, url, by_url[url])
        /\ UNCHANGED <<jwks_config, published, changes, by_url, last_attempt, fetching, failed>>

\* A lookup that fetches: the attempt is noted first.
Fetch(token) ==
    LET url == tenant_jwks_url_for_issuer(token.iss)
    IN  /\ token.kid # ServiceKey.kid /\ url \in Https
        /\ fetching = NoFetch /\ NeedsFetch(url)
        /\ last_attempt' = [last_attempt EXCEPT ![url] = now]
        /\ fetching' = [token |-> token, url |-> url, read |-> FALSE, keys |-> {}]
        /\ failed' = failed \ {url}
        /\ verdict' = NoVerdict
        /\ UNCHANGED <<jwks_config, published, changes, by_url>>

\* The site reads its document.
SiteReads ==
    /\ fetching # NoFetch /\ ~fetching.read
    /\ fetching' = [fetching EXCEPT !.read = TRUE,
           !.keys = {k.kid : k \in {j \in Keys : j.url = fetching.url /\ published[j].out}}]
    /\ verdict' = NoVerdict
    /\ UNCHANGED <<jwks_config, published, changes, by_url, last_attempt, failed>>

\* Variant: the first document of a url is kept.
FetchArrives_KeepsFirst ==
    /\ fetching # NoFetch /\ fetching.read
    /\ LET u == fetching.url
           entry == IF by_url[u] # NoEntry THEN [by_url[u] EXCEPT !.fetched = now]
                    ELSE [keys |-> fetching.keys, fetched |-> now]
       IN  by_url' = [by_url EXCEPT ![u] = entry] /\ Judge(fetching.token, u, entry)
    /\ fetching' = NoFetch
    /\ UNCHANGED <<jwks_config, published, changes, last_attempt, failed>>

FetchArrives ==
    /\ fetching # NoFetch /\ fetching.read
    /\ LET entry == [keys |-> fetching.keys, fetched |-> now]
       IN  /\ by_url' = [by_url EXCEPT ![fetching.url] = entry]
           /\ Judge(fetching.token, fetching.url, entry)
    /\ fetching' = NoFetch
    /\ UNCHANGED <<jwks_config, published, changes, last_attempt, failed>>

\* Whatever goes wrong with a fetch, the document of before stays in force.
FetchFails ==
    /\ fetching # NoFetch
    /\ Judge(fetching.token, fetching.url, by_url[fetching.url])
    /\ failed' = failed \cup {fetching.url}
    /\ fetching' = NoFetch
    /\ UNCHANGED <<jwks_config, published, changes, by_url, last_attempt>>

\* A site publishes a key or withdraws it.
Rotate(k) ==
    /\ changes < MaxChanges /\ changes' = changes + 1
    /\ published' = [published EXCEPT ![k] = [out |-> ~@.out, since |-> now]]
    /\ verdict' = NoVerdict
    /\ UNCHANGED <<jwks_config, by_url, last_attempt, fetching, failed>>

\* A fetch that takes longer than Slow has failed.
CacheWaits ==
    /\ fetching # NoFetch => now - last_attempt[fetching.url] < Slow
    /\ verdict' = NoVerdict
    /\ UNCHANGED <<jwks_config, published, changes, by_url, last_attempt, fetching, failed>>

CacheNext ==
    \/ \E t \in Tokens : verify_rs256_token(t) \/ Fetch(t)
    \/ SiteReads \/ FetchArrives \/ FetchFails
    \/ \E k \in Rotating : Rotate(k)

----------------------------------------------------------------------------
(* Properties.                                                              *)

\* The last attempt at the url has failed and the next one is not due.
Excused(url) == url \in failed /\ now - last_attempt[url] <= Backoff

\* What the cache may not know yet of a key.
Recent(k) == now - published[k].since <= ttl + Slow

\* A key of the site that the token's issuer leads to, over https.
OfIssuer(token) ==
    /\ token.signer \in Keys /\ token.signer.kid = token.kid
    /\ token.signer.url = tenant_jwks_url_for_issuer(token.iss)
    /\ token.signer.url \in Https

\* No token is accepted that the service did not sign, but for one signed with a
\* key its issuer's own site publishes, or withdrew so lately that the document may
\* still be held, or withdrew while the site could not be reached: "a failed refetch
\* backs off and the previous keys remain in force" (jwks.py, JWKSCache).  The last
\* case has no end: while every attempt fails, a withdrawn key stays good.
AcceptedIsVouchedFor ==
    verdict # NoVerdict /\ verdict.accepted =>
        /\ verdict.token.whole
        /\ \/ verdict.token.signer = ServiceKey
           \/ /\ OfIssuer(verdict.token)
              /\ \/ published[verdict.token.signer].out
                 \/ Recent(verdict.token.signer)
                 \/ Excused(verdict.token.signer.url)

\* A new key works once the document held before it has expired, however lookups,
\* slow fetches and failures fall, unless the last attempt failed within the backoff
\* (get_key), or the site gave the key the identifier of the service's own, which
\* verify_rs256_token tries first and alone.
NewKeyIsSeen ==
    verdict # NoVerdict /\ ~verdict.accepted /\ verdict.token.kid # ServiceKey.kid
      /\ verdict.token.whole /\ OfIssuer(verdict.token)
      /\ published[verdict.token.signer].out =>
        Recent(verdict.token.signer) \/ Excused(verdict.token.signer.url)
============================================================================
