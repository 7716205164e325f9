---------------------------- MODULE MCAssetStore ----------------------------
(* An instance of AssetStore for TLC: what mDNS, a TCP SYN, DHCP and SSDP tell of one device. *)
EXTENDS AssetStore

CONSTANTS Host, Phone, Port, Server

Told(names, services, os, list) ==
    [names |-> names, services |-> services, os |-> os, list |-> list]

\* Two instances of a service may be announced on one port.
Announced == LET s == [port |-> Port, client |-> FALSE] IN Told(<<Host>>, <<s, s>>, "", <<>>)
Dialled   == Told(<<>>, <<[port |-> Port, client |-> TRUE]>>, "", <<>>)
Leased    == Told(<<Phone>>, <<>>, "", <<Server>>)
Notified  == Told(<<>>, <<>>, "told", <<>>)

MCInputs == {Announced, Dialled, Leased, Notified}
=============================================================================
