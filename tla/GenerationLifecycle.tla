------------------------ MODULE GenerationLifecycle ------------------------
(***************************************************************************)
(* What a client of the project API is promised about one generation,      *)
(* whoever works on it and however often it is handed over: while it is    *)
(* active its segments are delivered one by one in outline order; it ends  *)
(* exactly once; the episode can be downloaded only when it ended ready,   *)
(* with every segment delivered; a requested cancellation stops delivery   *)
(* at once and can only be followed by its observation or by deletion.     *)
(***************************************************************************)
EXTENDS Integers

CONSTANT NumSegments

VARIABLES
  phase,      \* disposition while it runs, terminal_outcome afterwards
  delivered,  \* segments whose audio a client can download
  final       \* whether the episode can be downloaded

lifecycleVars == <<phase, delivered, final>>

Init == phase = "active" /\ delivered = {} /\ final = FALSE

Deliver ==
  /\ phase = "active"
  /\ \E s \in 1 .. NumSegments :
       /\ delivered = 1 .. (s - 1)
       /\ delivered' = delivered \cup {s}
  /\ UNCHANGED <<phase, final>>

Finish ==
  /\ phase = "active" /\ delivered = 1 .. NumSegments
  /\ phase' = "ready" /\ final' = TRUE
  /\ UNCHANGED delivered

Fail ==
  /\ phase = "active"
  /\ phase' = "failed"
  /\ UNCHANGED <<delivered, final>>

RequestCancellation ==
  /\ phase = "active"
  /\ phase' = "cancellation_requested"
  /\ UNCHANGED <<delivered, final>>

ObserveCancellation ==
  /\ phase = "cancellation_requested"
  /\ phase' = "cancelled"
  /\ UNCHANGED <<delivered, final>>

Delete ==
  /\ phase # "deleted"
  /\ phase' = "deleted" /\ delivered' = {} /\ final' = FALSE

Next ==
  \/ Deliver \/ Finish \/ Fail
  \/ RequestCancellation \/ ObserveCancellation \/ Delete

Spec == Init /\ [][Next]_lifecycleVars
=============================================================================
