---------------------------- MODULE MCLifecycle ----------------------------
(* A few processes in a row over one configuration file, for TLC.          *)
EXTENDS Lifecycle

MCWords == STRING

MCStaticLines == <<Line("poll_method", "epoll"), Line("module", "ice")>>

MCAudioModules == <<"opus", "g711">>

NoDns == <<>>

\* A first start, and a file of a user who has chosen much himself.
OwnFile ==
    <<Line("module", "g711"), Line("log_level", "3"), Line("net_af", "ipv4"),
      Line("dyn_dns", "no"), Line("dns_server", "d1"), Line("dns_server", "d2"),
      Line("call_volume", "8"), Line("call_volume", "9"), Line("tone_country", ""),
      Line("sip_verify_server", "")>>

MCFiles == {NoFile, OwnFile}

(* The files, and what they are after a start and after two: rewriting     *)
(* does not change them any more, and has kept their settings.             *)
OnceRewritten == {Rewrite(text) : text \in MCFiles}

MCTexts == MCFiles \union OnceRewritten \union {Rewrite(text) : text \in OnceRewritten}

ASSUME RewritingAssumption == KeepsSettings(MCTexts)

SomeFaults == {"thread", "ua_init", "mqueue_alloc", "loop", "write"}
=============================================================================
