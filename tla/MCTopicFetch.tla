---------------------------- MODULE MCTopicFetch ----------------------------
(***************************************************************************)
(* Instances of TopicFetch.  Entry 2 of the list has no name.              *)
(***************************************************************************)
EXTENDS TopicFetch

AllButSecond == (1..N) \ {2}
=============================================================================
