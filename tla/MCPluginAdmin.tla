--------------------------- MODULE MCPluginAdmin ---------------------------
(* Instances of PluginAdmin for TLC. *)
EXTENDS PluginAdmin, TLC

CONSTANTS p1, p2, j1, j2, k1, otp, sms

\* Two versions of plugin p1 (one without an AuthnMethod) and one jar of p2.
MCJarId == [jar \in Jars |-> IF jar = k1 THEN p2 ELSE p1]
MCJarAcrs == [jar \in Jars |-> CASE jar = j1 -> {otp} [] jar = k1 -> {sms} [] OTHER -> {}]

\* A fresh installation, and one whose file maps otp to plugin p1.
Fresh == [known |-> {}, acrMap |-> NothingMapped]
Customised == [known |-> {[id |-> p1, jar |-> j1, state |-> "STARTED"]},
               acrMap |-> [acr \in Acrs |-> IF acr = otp THEN p1 ELSE System]]
MCInitialConfigs == {Fresh, Customised}

Symmetry == Permutations(Admins)
=============================================================================
