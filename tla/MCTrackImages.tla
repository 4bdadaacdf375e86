--------------------------- MODULE MCTrackImages ---------------------------
(***************************************************************************)
(* What reads images that hold tracks, each part on its own small files:   *)
(* the stream of an HFE file's track (MCHfeStream), the two readers of     *)
(* tracks (MCHfeImage's and MCHxcImage's).                                 *)
(***************************************************************************)
EXTENDS MCHfeStream, MCHfeImage, MCHxcImage

VARIABLE reader

NoStream == hfe3 = FALSE /\ raw = <<>> /\ side = 0 /\ Start

MCInit ==
  \/ reader = "hfe" /\ MCHfeInit /\ NoHxc /\ NoStream
  \/ reader = "hxc" /\ MCHxcInit /\ NoHfe /\ NoStream
  \/ reader = "stream" /\ MCStreamInit /\ NoHfe /\ NoHxc

MCNext ==
  \/ reader = "hfe" /\ MCHfeNext /\ UNCHANGED <<reader, hxc_vars, vars>>
  \/ reader = "hxc" /\ MCHxcNext /\ UNCHANGED <<reader, hfe_vars, vars>>
  \/ reader = "stream" /\ Next /\ UNCHANGED <<reader, hfe_vars, hxc_vars>>

MCSpec == MCInit /\ [][MCNext]_<<reader, hfe_vars, hxc_vars, vars>>
=============================================================================
