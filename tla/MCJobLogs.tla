----------------------------- MODULE MCJobLogs -----------------------------
(* Instances of JobLogs for TLC: one input of two lines and one of one.     *)
EXTENDS JobLogs

CONSTANTS u, v

TwoAndOne == <<2, 1>>
OneEach == <<1, 1>>

(* What the writer and the client live through. *)
Tolerated == {"raise", "crash", "lag", "lost", "post", "cancel"}
=============================================================================
