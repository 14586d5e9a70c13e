---------------------------- MODULE MCMatchTable ----------------------------
(* Instances of MatchTable: entries are <<side, key, copy>>. *)
EXTENDS MatchTable

CONSTANTS k1, k2, k3, k4

MCKeys == {k1, k2, k3, k4}

\* Two common keys, one of them reported twice by the source, and one key of
\* each side alone.
MixedEntries == {<<0, k1, 1>>, <<0, k1, 2>>, <<0, k2, 1>>, <<0, k3, 1>>,
                 <<1, k1, 1>>, <<1, k2, 1>>, <<1, k4, 1>>}

MCSideOf(entries) == [e \in entries |-> e[1]]
MCKeyOf(entries)  == [e \in entries |-> e[2]]

MixedSideOf == MCSideOf(MixedEntries)
MixedKeyOf  == MCKeyOf(MixedEntries)

\* Two shards, so that common keys share a shard and single ones do not.
MCShardOf == [k \in MCKeys |-> IF k \in {k1, k3} THEN 1 ELSE 2]
=============================================================================
