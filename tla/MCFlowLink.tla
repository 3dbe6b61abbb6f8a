------------------------------ MODULE MCFlowLink ------------------------------
(* Instances of FlowLink for TLC.  As StreamManager::new does, they give    *)
(* the connection and each of two streams windows of the same size, three  *)
(* bytes.  One stream alone can then exhaust the connection, two streams   *)
(* together can exhaust it while both still have credit, and after it has  *)
(* been granted more, a stream can run out first: five bytes are enough    *)
(* for each of these and a further round.                                  *)
EXTENDS FlowLink

MCStreams == {4, 8}

\* Both drivers with orderly closes, and the polling driver with resets.
MCModes == {[driver |-> "events", abrupt |-> FALSE], [driver |-> "poll", abrupt |-> TRUE]}

\* The event driver with resets.
MCResetModes == {[driver |-> "events", abrupt |-> TRUE]}
=============================================================================
