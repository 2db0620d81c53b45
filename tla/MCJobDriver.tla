---------------------------- MODULE MCJobDriver ----------------------------
(* Instances of JobDriver for TLC: two nodes promised at the start and one  *)
(* replacement.                                                             *)
EXTENDS JobDriver

CONSTANTS a, b, c

TwoReady == [ready |-> <<a, b>>, booting |-> <<>>]
OneBooting == [ready |-> <<a>>, booting |-> <<b>>]
NoneReady == [ready |-> <<>>, booting |-> <<a, b>>]

OneReady == [ready |-> <<a>>, booting |-> <<>>]
AllPlans == {TwoReady, OneBooting, NoneReady, OneReady}
OneSlot == [n \in Nodes |-> 1]

(* What the driver is built to live through, or fails the call for by name. *)
Tolerated == {"start", "refusedStart", "others", "bootfail", "hang", "blip", "auth",
              "gateway", "cut", "refuse", "error", "stopping", "lost", "restart", "interrupt",
              "patch", "ping", "close"}

(* A machine that stops answering before it has taken the job. *)
Silent == {"lostEarly"}

(* The connection breaks after the node has the whole request. *)
Answer == {"answer"}

(* Assignments that fail, with SlowAssign and four nodes. *)
Refusals == {"error"}
=============================================================================
