--------------------------- MODULE MCUnitWorkload ----------------------------
EXTENDS UnitWorkload, TLC
CONSTANTS forge, mirror, relay, proxyA, proxyB, idp, valkey1, valkey2, bucket, wikiA, wikiB

Known == [host |-> forge, revoked |-> FALSE]
Revoked == [host |-> forge, revoked |-> TRUE]
Private == [scheme |-> "ssh", host |-> forge]
Public == [scheme |-> "https", host |-> mirror]
Origin(scheme, host) == [scheme |-> scheme, host |-> host]
Env(http, https, bypass) == FromEnv([http |-> http, https |-> https, bypass |-> bypass])

AllOptions ==
    [ repo |-> {NONE, Private, Public},
      knownHosts |-> {{Known}, {Revoked}},
      sshKey |-> {"absent", "present", "partly", "unusable"},
      sparse |-> BOOLEAN,
      proxy |-> {Env(NONE, NONE, {}), Env(proxyA, NONE, {}), Env(proxyA, proxyB, {relay})},
      smtp |-> {NONE, BAD, relay},
      s3 |-> {NONE, BAD, bucket},
      saml |-> {NONE, BAD, idp},
      oauth |-> {"none", "related"},
      valkey |-> {BAD, valkey1, valkey2},
      origin |-> {BAD, Origin("https", wikiA), Origin("http", wikiA), Origin("relative", wikiB)},
      tls |-> {"none", "issued", "denied"},
      ingress |-> {"none", "pending", "ready"},
      database |-> {"absent", "pending", "ready"} ]

Everything ==
    [ repo |-> Private, knownHosts |-> {Known}, sshKey |-> "present", sparse |-> FALSE,
      proxy |-> Env(proxyA, NONE, {}), smtp |-> relay, s3 |-> bucket, saml |-> idp,
      oauth |-> "none", valkey |-> valkey1, origin |-> Origin("https", wikiA), tls |-> "none",
      ingress |-> "ready", database |-> "ready" ]

=============================================================================
