------------------------------- MODULE MCBoot -------------------------------
(* Boot for TLC: every way in which one of up to two backends, and one of   *)
(* up to two keys, can be wrong.                                            *)
EXTENDS Boot

CONSTANT NaN

B(name, url, key, models, tags, privacy) ==
  [name |-> name, base_url_env |-> url, api_key_env |-> key, models |-> models,
   capability_tags |-> tags, privacy |-> privacy]

GoodBackends ==
  { B("a", "URL_A", NoVar, {"m1"}, {"fast"}, "External"),
    B("b", "URL_B", "KEY_1", {"m1", "m2"}, {}, "Local") }

BackendVariants == GoodBackends \cup
  { B("", "URL_A", NoVar, {"m1"}, {}, "Local"),
    B("c", "1URL", NoVar, {"m1"}, {}, "Local"),
    B("c", "GONE", NoVar, {"m1"}, {}, "Local"),
    B("c", "FTP", NoVar, {"m1"}, {}, "Local"),
    B("c", "URL_A", "1KEY", {"m1"}, {}, "Local"),
    B("c", "URL_A", "GONE", {"m1"}, {}, "Local"),
    B("c", "URL_A", NoVar, {}, {}, "Local"),
    B("c", "URL_A", NoVar, {"m1", ""}, {}, "Local"),
    B("c", "URL_A", NoVar, {"m1"}, {""}, "Local") }

K(name, var, private) ==
  [name |-> name, key_env |-> var, enforce_private |-> private]

KeyVariants ==
  { K("x", "KEY_1", FALSE), K("y", "KEY_2", TRUE), K("z", "KEY_1_TOO", TRUE),
    K("", "KEY_1", FALSE), K("w", "1KEY", FALSE), K("w", "GONE", FALSE),
    K("w", "BLANK", FALSE) }

Env == [URL_A |-> "http://a/", URL_B |-> "https://b", FTP |-> "ftp://c",
        KEY_1 |-> "s1", KEY_1_TOO |-> "s1", KEY_2 |-> "s2", BLANK |-> ""]

MCEnvs == {Env}
MCEnvNames == DOMAIN Env \cup {"GONE"}
MCTrimmed == ("http://a/" :> "http://a") @@ ("https://b" :> "https://b")

Policies == {[kind |-> "StaticPriority"]} \cup
            [kind: {"EwmaLatency"}, alpha: {NaN, 0, 30, 100, 101}]

UpToTwo(S) == SeqOf(S, 2)

Raw(listen, bs, ks, p) ==
  [listen |-> listen, backends |-> bs, virtual_keys |-> ks, policy |-> p]

Good == Raw("0.0.0.0:8080", <<B("a", "URL_A", NoVar, {"m1"}, {}, "Local")>>, <<>>,
            [kind |-> "StaticPriority"])

(* Backends vary with no keys, keys with good backends.                     *)
MCFiles ==
  [read: {"NotFound", "Io", "Parse"}, raw: {Good}] \cup
  [read: {"Ok"},
   raw: {Raw("nowhere", Good.backends, <<>>, Good.policy)} \cup
        {Raw(Good.listen, bs, <<>>, p): bs \in UpToTwo(BackendVariants), p \in Policies}
        \cup {Raw(Good.listen, bs, ks, p): bs \in UpToTwo(GoodBackends) \ {<<>>},
                                           ks \in UpToTwo(KeyVariants), p \in Policies}]
=============================================================================
