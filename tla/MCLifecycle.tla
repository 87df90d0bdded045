----------------------------- MODULE MCLifecycle ----------------------------
(* Instances of Lifecycle for TLC. *)
EXTENDS Lifecycle

CONSTANTS s1, s2, a, b

MCServers == {s1, s2}
MCOrder == <<s1, s2>>
MCNames == {a, b}
\* No templates, or two.
MCConfigs == {<<>>, <<a, b>>}
=============================================================================
