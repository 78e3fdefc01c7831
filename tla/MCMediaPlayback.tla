-------------------------- MODULE MCMediaPlayback --------------------------
(* Instances of MediaPlayback for TLC: files of a few packets, audio every *)
(* 20 ms and video every 40 ms, some with equal time stamps.               *)
EXTENDS MediaPlayback

Audio(pts) == [type |-> "audio", ptsMs |-> pts, durMs |-> 20]
Video(pts) == [type |-> "video", ptsMs |-> pts, durMs |-> 0]

ShortFile ==
    <<Audio(20), Video(20), Audio(40), Audio(60), Video(60), Audio(80), Audio(100), Video(100)>>
============================================================================
