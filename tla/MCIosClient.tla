---------------------------- MODULE MCIosClient ----------------------------
(* A small instance of IosClient for TLC: two calls, two UAs.              *)
EXTENDS IosClient

AllMethods == {"init", "refresh", "unregister", "call", "answer", "hangup",
               "pause", "resume"}
=============================================================================
