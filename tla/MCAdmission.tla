---------------------------- MODULE MCAdmission ----------------------------
(* A small instance of Admission: the site of issuer i1 and the default     *)
(* site use the same key identifier.                                        *)
EXTENDS Admission

CONSTANTS i1, u1, u2, plain

K1 == [url |-> u1, kid |-> "k"]
K2 == [url |-> u2, kid |-> "k"]
MCKeys == {K1, K2}
MCRotating == {K1}

Token(kid, iss, signer, whole) == [kid |-> kid, iss |-> iss, signer |-> signer, whole |-> whole]

\* Tokens of both sites, one that names the wrong issuer, one that has expired,
\* one of the service and one that only claims to be.
MCTokens ==
    {Token("k", i1, K1, TRUE), Token("k", NoIssuer, K2, TRUE), Token("k", NoIssuer, K1, TRUE),
     Token("k", i1, K1, FALSE),
     Token("service", NoIssuer, ServiceKey, TRUE), Token("service", i1, K1, TRUE)}

\* A site of its own, the default site only, and a url that is not https.
MCConfigs ==
    {[default |-> d, own |-> [i \in {i1} |-> o]] : <<d, o>> \in {<<u2, u1>>, <<u1, Unset>>, <<Unset, plain>>}}
============================================================================
