---------------------------- MODULE UnitSettings -----------------------------
(***************************************************************************)
(* What LateSettings.php and the SimpleSAMLphp configuration say, as       *)
(* functions of the configuration and relation data c that a hook has      *)
(* read.  A relation's data is NONE without the relation, and BAD when it  *)
(* is incomplete or malformed, as is an option that is not valid.          *)
(***************************************************************************)
EXTENDS Egress

CONSTANT BAD

\* validate_url_origin, among other options: without a valid one nothing can be loaded.
ConfigIsValid(c) == c.origin # BAD

\* Tls.get_material.
TlsRefused(c) == c.tls = "denied"
TlsIsReady(c) == c.tls = "issued"

\* Valkey.get_connection_info: incomplete data counts as none.
Valkey(c) == IF c.valkey = BAD THEN NONE ELSE c.valkey

\* A protocol-relative origin stands for HTTPS.
Normalized(origin) ==
    IF origin.scheme = "relative" THEN [origin EXCEPT !.scheme = "https"] ELSE origin

\* _get_smtp_settings: mail goes to the relay, or to the local end of a tunnel to it.
MailTunnel(c) == IF c.smtp \in {NONE, BAD} THEN NONE ELSE TunnelCommand(c.proxy, c.smtp)
Mail(c) ==
    CASE c.smtp = NONE -> [via |-> "default", to |-> NONE]
      [] c.smtp = BAD  -> [via |-> "off", to |-> NONE]
      [] OTHER         -> [via |-> IF MailTunnel(c) = NONE THEN "direct" ELSE "tunnel",
                           to  |-> c.smtp]

\* _get_s3_settings: without usable data uploads are disabled.
Bucket(c) == IF c.s3 = BAD THEN NONE ELSE c.s3

\* _push_simplesamlphp_config: the sessions of SAML are kept in Valkey, and its cookies
\* need HTTPS.
SamlRefused(c) ==
    c.saml \notin {NONE, BAD} /\ (Normalized(c.origin).scheme # "https" \/ Valkey(c) = NONE)
SamlWritten(c) == c.saml \notin {NONE, BAD} /\ ~SamlRefused(c)
SamlConfig(c) ==
    [idp |-> c.saml, store |-> Valkey(c), proxy |-> c.proxy.https,
     origin |-> Normalized(c.origin)]

\* OpenID Connect needs the credentials that the provider gives to a client it has registered.
OpenIdConfigured(c) == c.oauth = "registered"
OpenIdProxy(c) == ProxyOf(c.proxy)

\* _get_auth_settings: whatever is wrong with SAML leaves OAuth out as well.
AuthFails(c) == c.saml = BAD \/ SamlRefused(c)
AuthExtensions(c) ==
    IF AuthFails(c) THEN {}
    ELSE {extension \in {"OpenIDConnect", "SimpleSAMLphp"} :
             IF extension = "SimpleSAMLphp" THEN SamlWritten(c) ELSE OpenIdConfigured(c)}

\* Errors that are raised only when the settings are written.
Deferred(c) == AuthFails(c) \/ c.smtp = BAD \/ c.s3 = BAD

LateSettings(c, shellboxKey) ==
    [mail |-> Mail(c), bucket |-> Bucket(c), auth |-> AuthExtensions(c),
     oidcProxy |-> IF "OpenIDConnect" \in AuthExtensions(c) THEN OpenIdProxy(c) ELSE NONE,
     cache |-> Valkey(c), proxy |-> HttpProxy(c.proxy), shellbox |-> shellboxKey]

=============================================================================
