----------------------------- MODULE MCLifecycle -----------------------------
(* Instances of Lifecycle for TLC.                                         *)
EXTENDS Lifecycle

\* A passive service, another one, a proxy that would forward to itself, which is
\* refused, and one that is accepted.
ServiceNames == {"web", "shop", "loop", "front"}

Endpoint(ip, port) == [ip |-> ip, port |-> port]
InstallOptions ==
  [web   |-> [mode |-> "sniff"],
   shop  |-> [mode |-> "sniff"],
   loop  |-> [mode |-> "proxy", listen |-> Endpoint("unspecified", 80),
              upstream |-> Endpoint("loopback", 80)],
   front |-> [mode |-> "proxy", listen |-> Endpoint("unspecified", 80),
              upstream |-> Endpoint("loopback", 8080)]]

BothManagers == {"systemd", "sysv"}
=============================================================================
