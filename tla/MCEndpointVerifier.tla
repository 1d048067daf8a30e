-------------------------- MODULE MCEndpointVerifier --------------------------
(***************************************************************************)
(* The verifier's run, bounded in one respect, for the sake of time: once  *)
(* another client has called and the process has crashed, in either order, *)
(* what follows is not explored while the verifier polls.  The theorems of *)
(* EndpointVerifierProofs have no such bound.                              *)
(***************************************************************************)
EXTENDS EndpointVerifier

CrashOrMeddling == goal \in Polls => ~meddled \/ crashes = 0
=============================================================================
