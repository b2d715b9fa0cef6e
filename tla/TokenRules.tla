------------------------------ MODULE TokenRules ------------------------------
(***************************************************************************)
(* What an OIDC provider checks of its configuration and of a token        *)
(* (crates/security-jwt/src: oidc_config.rs, oidc_provider.rs,             *)
(* multi_issuer.rs, validation.rs, principal_mapper.rs).  A token is a     *)
(* record of what these checks tell apart; its signature is the key that   *)
(* made it.                                                                *)
(***************************************************************************)
EXTENDS Integers, FiniteSets

CONSTANTS
  MaxCacheTtl,   \* MAX_CACHE_TTL
  NoValue        \* an option that is not set, a claim that is absent

ASSUME TtlAssumption == MaxCacheTtl \in Nat \ {0}

(* validate_url_requires_https: plain http is for the local host only.     *)
UrlAllowed(url) == url \in {NoValue, "https", "localhost"}

(* OidcProviderConfig::validate, and the bounds of the cache's lifetime.   *)
Validates(config) ==
  /\ config.issuer_url # NoValue \/ config.jwks_uri # NoValue
  /\ UrlAllowed(config.jwks_uri) /\ UrlAllowed(config.issuer_url)
  /\ UrlAllowed(config.introspection_endpoint)
  /\ IF config.introspection_endpoint # NoValue
     THEN config.client_id /\ config.client_secret
     ELSE ~config.client_id /\ ~config.client_secret
  /\ config.cache_ttl = NoValue \/ config.cache_ttl \in 1 .. MaxCacheTtl
  /\ config.algorithms # {}
  /\ config.jwks_uri # NoValue => config.expected_iss # NoValue

(* build_introspection                                                     *)
Introspects(config) == config.introspection_endpoint # NoValue
Caches(config) == Introspects(config) /\ config.cache_ttl # NoValue

(* authenticate of the OIDC provider: which path a token takes.            *)
TakesJwtPath(config, token) ==
  \/ config.token_format = "Jwt"
  \/ config.token_format = "Auto" /\ token.shape = "jwt"

(* try_jwt_path: of the algorithms that may be allowed only two are served. *)
Supported(config, token) == token.alg \in config.algorithms \cap {"RS256", "ES256"}

(* MultiIssuerAuthenticationProvider: the unverified issuer picks the      *)
(* provider; only a readable payload has one.                              *)
Routed(config, token) ==
  config.issuers # NoValue => token.shape = "jwt" /\ token.iss \in config.issuers

(* vk_to_result                                                            *)
SameAlgorithm(key, token) == key.alg = token.alg

(* JwtValidationEngine::validate_with_mapper                               *)
ValidationResult(config, token, key, now) ==
  CASE token.key # key.key -> "InvalidSignature"
    [] token.exp = NoValue -> "InvalidToken"
    [] now >= token.exp + config.leeway -> "ExpiredToken"
    [] token.nbf # NoValue /\ now + config.leeway < token.nbf -> "InvalidToken"
    [] config.expected_iss # NoValue /\ token.iss # config.expected_iss -> "InvalidToken"
    [] config.expected_aud # NoValue /\ token.aud \cap config.expected_aud = {} -> "InvalidToken"
    [] ~token.maps -> "MissingClaim"
    [] OTHER -> "Ok"
=============================================================================
