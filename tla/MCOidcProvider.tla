---------------------------- MODULE MCOidcProvider ----------------------------
(* Up to four calls with the tokens of a plan.  The issuer's second key    *)
(* set renews the key of kid "a" and adds kid "b".                         *)
EXTENDS OidcProvider

MCCalls == 1 .. 4

Key(kid, key, alg) == [kid |-> kid, key |-> key, alg |-> alg, usable |-> TRUE]
Changing ==
  <<{Key("a", "a1", "RS256")}, {Key("a", "a2", "RS256"), Key("b", "b1", "ES256")}>>

Jwt(kid, key, alg) ==
  [shape |-> "jwt", fits |-> TRUE, iss |-> "i", alg |-> alg, kid |-> kid, key |-> key,
   exp |-> 3, nbf |-> 0, aud |-> {"svc"}, maps |-> TRUE]
Opaque(name) ==
  [shape |-> "opaque", fits |-> TRUE, iss |-> NoValue, alg |-> NoValue, kid |-> name,
   key |-> NoValue, exp |-> NoValue, nbf |-> NoValue, aud |-> {}, maps |-> TRUE]

Base ==
  [issuer_url |-> "https", jwks_uri |-> NoValue, introspection_endpoint |-> "https",
   client_id |-> TRUE, client_secret |-> TRUE, cache_ttl |-> 2,
   algorithms |-> {"RS256", "ES256"}, expected_iss |-> "i", expected_aud |-> {"svc"},
   leeway |-> 0, token_format |-> "Auto", issuers |-> NoValue, runtime |-> TRUE,
   refresh_ttl |-> 1, discovery |-> "own", introspector |-> "http"]
Alone == [Base EXCEPT !.jwks_uri = "localhost", !.introspection_endpoint = NoValue,
                      !.client_id = FALSE, !.client_secret = FALSE, !.cache_ttl = NoValue,
                      !.runtime = FALSE, !.issuers = {"i"}]
Opaques == [Base EXCEPT !.token_format = "Opaque", !.introspector = "own"]

Old == Jwt("a", "a1", "RS256")
New == Jwt("b", "b1", "ES256")
Other == Jwt("b", "b1", "RS256")

P(conf, tokens, keysets, revocable, bound) ==
  [config |-> conf, tokens |-> tokens, keysets |-> keysets, revocable |-> revocable,
   faults |-> bound, until |-> 3]
Steady == SubSeq(Changing, 1, 1)
Unusable == <<{[Key("a", "a1", "RS256") EXCEPT !.usable = FALSE]}>>
x == Opaque("x")
y == Opaque("y")
z == Opaque("z")

(* Plan 7 stores a token again below the limit of the cache, then fills    *)
(* it; in plan 10 the panics of the default client use up the pool.        *)
MCPlans ==
  {[P(Base, <<New, New, Old>>, Changing, {}, 1) EXCEPT !.until = 2],
   P([Base EXCEPT !.refresh_ttl = 0], <<New, New>>, Changing, {}, 0),
   P(Alone, <<New, [New EXCEPT !.nbf = 2], Other>>, Changing, {}, 0),
   P(Alone, <<[New EXCEPT !.iss = "j"], x, [Old EXCEPT !.alg = "HS256"]>>, Steady, {}, 0),
   P(Alone, <<Old>>, Unusable, {}, 0),
   P(Opaques, <<x, x, y>>, Steady, {x}, 0),
   [P([Opaques EXCEPT !.cache_ttl = 1], <<x, x, y, z>>, Steady, {}, 0) EXCEPT !.until = 1],
   P([Opaques EXCEPT !.cache_ttl = NoValue],
     <<x, [New EXCEPT !.fits = FALSE], [y EXCEPT !.maps = FALSE]>>, Steady, {x}, 1),
   P([Base EXCEPT !.token_format = "Jwt", !.expected_iss = NoValue],
     <<[Old EXCEPT !.aud = {}], [Old EXCEPT !.maps = FALSE], x>>, Steady, {}, 0),
   P([Base EXCEPT !.runtime = FALSE, !.cache_ttl = NoValue], <<x, y, Old>>, Steady, {}, 0),
   P([Base EXCEPT !.discovery = "http"], <<Old>>, Steady, {}, 0),
   P([Base EXCEPT !.client_id = FALSE], <<Old>>, Steady, {}, 0),
   P([Base EXCEPT !.jwks_uri = "http"], <<Old>>, Steady, {}, 0)}
=============================================================================
