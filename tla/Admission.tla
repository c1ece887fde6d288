----------------------------- MODULE Admission -----------------------------
(***************************************************************************)
(* What stands before a decision and keeps state of its own: the key cache *)
(* that verifies tokens and the quotas of the rate limiter.  They share    *)
(* the clock and nothing else, so a behaviour follows one of them.         *)
(***************************************************************************)
EXTENDS RateLimiter, JwksCache

CONSTANT Subjects   \* a subset of {"quotas", "keys"}

VARIABLE subject

admissionVars == <<now, subject, limiter, cache>>

\* The configuration of the sites does not matter to the quotas.
AdmissionInit ==
    /\ now = 0 /\ subject \in Subjects
    /\ LimiterInit /\ CacheInit
    /\ subject = "quotas" => jwks_config = CHOOSE c \in JwksConfigs : TRUE

Tick == Advance /\ CacheWaits /\ UNCHANGED <<subject, limiter>>

Quotas == subject = "quotas" /\ LimiterNext /\ UNCHANGED <<now, subject, cache>>

VerifyTokens == subject = "keys" /\ CacheNext /\ UNCHANGED <<now, subject, limiter>>

AdmissionNext == Tick \/ Quotas \/ VerifyTokens

AdmissionSpec == AdmissionInit /\ [][AdmissionNext]_admissionVars
============================================================================
