-------------------------- MODULE MCDistributedLock --------------------------
(* Four calls of two servers on two poll windows of one schedule: both servers *)
(* ask for the first window, and server s1 asks twice.                        *)
EXTENDS DistributedLock, TLC

FourKeys    == "c1" :> "w1" @@ "c2" :> "w1" @@ "c3" :> "w1" @@ "c4" :> "w2"
FourServers == "c1" :> "s1" @@ "c2" :> "s1" @@ "c3" :> "s2" @@ "c4" :> "s2"
=============================================================================
