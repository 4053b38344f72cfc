--------------------------- MODULE MCJwksProvider ---------------------------
(* JwksProvider with one rotation that keeps a long-lived key.             *)
EXTENDS JwksProvider

CONSTANTS old, new, stable, odd

\* `odd` is a key jsonwebtoken cannot convert.
MCPublished == <<{old, stable, odd}, {new, stable}>>
MCConvertible == {old, new, stable}

\* The new key is a symmetric one, for whose tokens the policy asks no expiry.
MCSymmetric == {new}

Token(signer, kid, exp) == [signer |-> signer, kid |-> kid, exp |-> exp]

MCTokens ==
    {Token(new, new, "absent"), Token(stable, stable, "valid"), Token(stable, NoKid, "valid"),
     Token(stable, odd, "expired"), Token(Secret, NoKid, "absent")}

MCPolicy == [jwt_secret |-> TRUE, require_exp_secret |-> FALSE, require_exp_jwks |-> TRUE]

\* One failure opens the circuit and one probe may close it, as with the
\* JWKS default of one half-open request.
MCConfigs == {[failure_threshold |-> 1, reset_timeout |-> 1, half_open_max_requests |-> 1]}
=============================================================================
