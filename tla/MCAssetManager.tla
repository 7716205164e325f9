--------------------------- MODULE MCAssetManager ---------------------------
(* Instances of AssetManager for TLC: where each MAC is sharded, and the rows the database
   may hold at startup - one within the load window, one older. *)
EXTENDS AssetManager

Row(status, seen) == [status |-> status, first |-> 1, last |-> seen, facts |-> {},
                      ips |-> [ip \in IPs |-> NoIP]]

MCInitialRows == {Row("online", StartTime), Row("offline", 1)}

RecentRow == {Row("online", StartTime)}

\* Old sightings that carry nothing, and the fact and an address with a lease, old or new.
MixedInputs == {o \in ObservationData :
                    /\ o.at # StartTime
                    /\ IF o.facts = {} THEN o.ips = {} /\ o.at < StartTime
                                       ELSE o.facts = Facts /\ o.ips = IPs}

\* Sightings with a fact or none, or an address under each lease with the facts of extra_json.
LeasedInputs == {o \in ObservationData :
                    /\ o.at # StartTime
                    /\ IF o.ips = {} THEN TRUE /\ o.facts \cap Extras = {}
                                     ELSE o.ips = IPs /\ o.facts = Extras}

\* Sightings that carry nothing.
BareInputs == {o \in ObservationData :
                    o.facts = {} /\ o.ips = {} /\ o.at # StartTime}

OneShard == [m \in MACs |-> 0]

SpreadShards == CHOOSE f \in [MACs -> 0..1] : Cardinality({f[m] : m \in MACs}) = 2

=============================================================================
