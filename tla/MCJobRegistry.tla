--------------------------- MODULE MCJobRegistry ---------------------------
(***************************************************************************)
(* Instances of JobRegistry for TLC: a choice of processes that meet on    *)
(* identity i1; a1 is a start of a second identity, i2.                    *)
(***************************************************************************)
EXTENDS JobRegistry, TLC

CONSTANTS i1, i2, h1, h2, a1, k1, l1, g1, g2, p1, p2, s1, n1, e1, d1, t1, z1

AllKinds == h1 :> "githubHost" @@ h2 :> "githubHost" @@ a1 :> "gitlabHost"
            @@ k1 :> "githubK8s" @@ l1 :> "gitlabHost" @@ g1 :> "gitlabStage"
            @@ g2 :> "gitlabStage" @@ s1 :> "peerStage" @@ n1 :> "k8sStage"
            @@ p1 :> "project" @@ p2 :> "project"
            @@ e1 :> "hostEnd" @@ d1 :> "ended"
            @@ t1 :> "ttl" @@ z1 :> "shutdown"

MCKind == [r \in Requests |-> AllKinds[r]]
MCIdOf == [r \in Requests |-> IF r = a1 THEN i2 ELSE i1]
=============================================================================
