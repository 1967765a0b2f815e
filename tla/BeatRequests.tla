---------------------------- MODULE BeatRequests ----------------------------
(***************************************************************************)
(* The identities every other module speaks about: solve requests and      *)
(* warm-ups, each made once by a thread of its own.                        *)
(***************************************************************************)
CONSTANTS Requests,     \* everything that may call acquire(), once each
          NoRequest     \* nobody

ASSUME NoRequestAssumption == NoRequest \notin Requests
=============================================================================
