------------------------ MODULE MC_ConnectionRegistry ------------------------
(* Model-checking instance of ConnectionRegistry: two sessions share one   *)
(* channel, so one removes itself while the other is reachable; events    *)
(* also arrive for a channel with no session; up to two frames are sent.  *)
EXTENDS ConnectionRegistry

MCConns == {"c1", "c2"}
MCChannels == {"ch1", "ch2"}
MCChannelOf == [c \in MCConns |-> "ch1"]
=============================================================================
