------------------------------ MODULE MCCodecs -------------------------------
(* Every codec, with a few bytes in writes, fragments and buffers of 1 to 4. *)
EXTENDS Codecs

Of(kind, proto, obfs) == [kind |-> kind, proto |-> proto, obfs |-> obfs]

MCCodecs ==
  {Of(k, "", "") : k \in {"vmess", "vmess-aead", "shadowaead", "shadowstream", "ws",
                          "obfs-tls", "obfs-tls-down", "obfs-http", "vless"}}
  \cup {Of("ws", "", "masked")}
  \cup {Of("ssr", p, o) : p \in {"sha1_v4", "aes128", "chain_a"}, o \in {"", "http"}}
  \cup {Of("ssr", "chain_a", "random"), Of("ssr", "aes128", "tls12")}
  \cup {Of("ssr-down", "sha1_v4", ""), Of("ssr-down", "chain_a", ""),
        Of("ssr-down", "aes128", "http"), Of("ssr-down", "aes128", "tls12")}
=============================================================================
