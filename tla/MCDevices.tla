----------------------------- MODULE MCDevices -----------------------------
(* Instances of Devices for TLC. *)
EXTENDS Devices, FiniteSets, TLC

Update(names, v) == [c \in Channels |-> IF c \in names THEN v ELSE None]

\* No channels, or the channel a set.
OneSet == {NoChannels} \cup {Update({c}, 1) : c \in Channels}

OnlyEmpty == {NoChannels}

\* Every template declares every channel.
DeclareAll == [t \in Templates |-> Channels]

\* Bounds: the broker stays connected and rows stay recent.
LinkedAndRecent ==
  linked /\ \A d \in Devices : Exists(d) => row[d].recent

\* Handlers are interchangeable, and so are channels where every template
\* declares all of them and the writes treat them alike.
Symmetric == Permutations(Handlers) \cup Permutations(Channels)
=============================================================================
