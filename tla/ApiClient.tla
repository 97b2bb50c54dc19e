------------------------------ MODULE ApiClient -----------------------------
(***************************************************************************)
(* A call of crates/api/src/client.rs: how a request is decorated from the *)
(* shared cookie jar and signed (crates/api/src/signing.rs), and what the  *)
(* caller gets for each way the server can answer.                         *)
(*                                                                         *)
(* A cookie value is a number, a header that is absent is None, and a      *)
(* digest is the input it is computed from together with the key.  The     *)
(* query parameters of the client's identity are the same on every call.   *)
(***************************************************************************)
EXTENDS Naturals

None == 0

-----------------------------------------------------------------------------
(* CookieStore: a function on the names of the cookies it holds            *)

EmptyJar == [n \in {} |-> None]

Get(jar, name) == IF name \in DOMAIN jar THEN jar[name] ELSE None

\* A Set-Cookie replaces the cookie of this name, the others stay.
merge(jar, updates) ==
    [n \in DOMAIN jar \cup DOMAIN updates |->
        IF n \in DOMAIN updates THEN updates[n] ELSE jar[n]]

-----------------------------------------------------------------------------
(* Decoration                                                              *)

\* The jar is read once: the Cookie header and the two headers that repeat
\* a cookie are of one moment.  The device cookies are on every request.
base_headers(jar, identity, knock) ==
    [cookie |-> merge(jar, [device_id |-> identity, device_name |-> identity]),
     csrf   |-> Get(jar, "csrf-token"),
     knock  |-> knock,
     jwt    |-> Get(jar, "vpn-token")]

default_signing_input_flags ==
    {"METHOD", "PATH", "QUERY", "BODY_SHA256", "COOKIE", "ANDROID_RESERVED_6",
     "CSRF_TOKEN", "KNOCK_TOKEN"}

\* Without rules every path is signed; else the first enabled rule that
\* names the path decides, and a path without one is not signed ({}).
signing_input_flags(config, path) ==
    LET flags(params) == IF params = {} THEN default_signing_input_flags ELSE params
        matching == {i \in DOMAIN config.rules :
                        config.rules[i].enable_signing /\ path \in config.rules[i].urls}
    IN  IF config.rules = <<>> THEN flags(config.signing_input_params)
        ELSE IF matching = {} THEN {}
        ELSE flags(config.rules[CHOOSE i \in matching : \A j \in matching : i <= j]
                       .signing_input_params)

\* The parts of the request that are hashed.
signing_input(method, path, headers, body, flags) ==
    [method |-> IF "METHOD" \in flags THEN method ELSE "",
     path   |-> IF "PATH" \in flags THEN path ELSE "",
     body   |-> IF "BODY_SHA256" \in flags THEN body ELSE "",
     cookie |-> IF "COOKIE" \in flags THEN headers.cookie ELSE EmptyJar,
     csrf   |-> IF "CSRF_TOKEN" \in flags THEN headers.csrf ELSE None,
     knock  |-> IF "KNOCK_TOKEN" \in flags THEN headers.knock ELSE None,
     jwt    |-> IF "JWT_TOKEN" \in flags THEN headers.jwt ELSE None]

\* A key that is given comes before one derived from the activation code and
\* the device, and that before a shared secret.  Without any of them, or with a
\* key that is not base64, sign fails: build_hooks always gives the derived one.
hmac_key(config) ==
    IF config.hmac_key_base64 # "" THEN <<config.hmac_key_base64>>
    ELSE IF config.activation_code # "" /\ config.device_id # ""
         THEN <<config.activation_code, config.device_id>>
    ELSE <<config.shared_secret>>

Unsigned == [flags |-> {}]

Signs(config, method, path) ==
    config.enabled /\ method # "PUT" /\ signing_input_flags(config, path) # {}

\* The Sign header: which parts are covered, and the digest of them.
sign(config, method, path, headers, body) ==
    LET flags == signing_input_flags(config, path)
    IN  IF Signs(config, method, path)
        THEN [flags |-> flags, key |-> hmac_key(config),
              input |-> signing_input(method, path, headers, body, flags)]
        ELSE Unsigned

\* What ApiClient::execute sends.
prepare(config, identity, knock, jar, method, path, body) ==
    LET headers == base_headers(jar, identity, knock)
    IN  [method |-> method, path |-> path, body |-> body, headers |-> headers,
         sign |-> sign(config, method, path, headers, body)]

-----------------------------------------------------------------------------
(* The answer                                                              *)

\* No answer at all, a body that breaks off, a status that is not 2xx, a body
\* that does not decode, a code that is not 0, and a success without or with
\* data.
Answers == {"none", "cut", "http", "garbage", "code", "empty", "data"}

\* Set-Cookie is absorbed as soon as there is a head, before the rest is
\* looked at: an error answer changes the jar as well.
absorb(jar, answer, updates) == IF answer = "none" THEN jar ELSE merge(jar, updates)

\* execute, decode_response and check_api_status: Ok or an error.
send_ok(answer) == answer \in {"empty", "data"}
=============================================================================
