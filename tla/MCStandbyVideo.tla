--------------------------- MODULE MCStandbyVideo ---------------------------
(* StandbyVideo with two video and two audio ports. *)
EXTENDS StandbyVideo

MCVideoPorts == <<"HDMI0", "Component0">>
MCAudioPersist == [a \in {"SPDIF", "HDMI"} |-> a = "HDMI"]
=============================================================================
