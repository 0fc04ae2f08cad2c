------------------------------- MODULE Egress -------------------------------
(***************************************************************************)
(* Which way outbound connections of the workload take: directly, or       *)
(* through an HTTP proxy of the Juju model.  A host stands for the         *)
(* destination's name and port.                                            *)
(***************************************************************************)
CONSTANTS NONE, SLEEP

\* ProxyConfig.from_env: bypass is no_proxy.
NoProxy == [http |-> NONE, https |-> NONE, bypass |-> {}]
FromEnv(env) == IF env.http = NONE /\ env.https = NONE THEN NoProxy ELSE env

\* ProxyConfig.as_dict: the variables that are set in the environment of a process.
Environment(p) == [name \in {n \in DOMAIN p : p[n] \notin {NONE, {}}} |-> p[name]]

ProxyOf(p) == IF p.https # NONE THEN p.https ELSE p.http

ShouldProxy(p, host) == ProxyOf(p) # NONE /\ host \notin p.bypass

\* Where a command for socat connects: the proxy's endpoint, and through it the host.
ConnectCommand(p, host) == [proxy |-> ProxyOf(p), to |-> host]

\* A local listener that forwards to the host through the proxy.
TunnelCommand(p, host) ==
    IF ShouldProxy(p, host) THEN ConnectCommand(p, host) ELSE NONE

\* SSH expands the destination itself, so that no_proxy cannot be applied.
SshProxyCommand(p) == ProxyOf(p)

\* TunnelServiceRegistry: the Pebble service of a registered tunnel.  A disabled service has
\* a command that ends nothing and does nothing.
TunnelService(command) ==
    [command |-> IF command = NONE THEN SLEEP ELSE command, enabled |-> command # NONE]

\* _get_proxy_settings: what MediaWiki itself uses.
HttpProxy(p) == p.http

\* extract_remote: the host of an SSH remote; other schemes have no host key.
Remote(repo) == IF repo = NONE \/ repo.scheme # "ssh" THEN NONE ELSE repo.host

\* remote_in_known_hosts: some entry that is not revoked names the host.
RemoteInKnownHosts(host, entries) ==
    \E entry \in entries : ~entry.revoked /\ host = entry.host

=============================================================================
