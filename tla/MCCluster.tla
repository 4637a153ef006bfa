----------------------------- MODULE MCCluster -----------------------------
(* Instance of Cluster for TLC.  The counter has 8 values, no multiple of  *)
(* three replicas, so that 10 reads pass a wrap; the largest pool size is  *)
(* scaled down to 120.                                                     *)
EXTENDS Cluster

(* Around the zero value, the default and the limits of each field.        *)
MCExplicit ==
  {[Default EXCEPT !.creds = c, !.min = a, !.max = b, !.enabled = e, !.retries = n, !.delay = d] :
     c \in BOOLEAN, a \in {-1, 0, 5, 121}, b \in {-1, 0, 3, 121},
     e \in BOOLEAN, n \in {0, 1, 3}, d \in {0, 20}}

MCEnv ==
  {[f \in DOMAIN Default |->
      CASE f = "creds" -> TRUE [] f = "min" -> a [] f = "enabled" -> e [] f = "retries" -> n
        [] OTHER -> Unset] :
     a \in {Unset, Invalid, 0, 7}, e \in {Unset, Invalid, FALSE}, n \in {Unset, 0, 1}}
=============================================================================
