---------------------------- MODULE MCDiscoveryWatch ----------------------------
(* Discovery for TLC: two servers that are selected and one that is not.  The source *)
(* lists the two or only the third.  An entry for t1 that the file ends in reads as   *)
(* its host alone.                                                                    *)
EXTENDS DiscoveryWatch, TLC

CONSTANTS n1, n2, n3, t1, t2

Both == n1 :> t1 @@ n2 :> t2 @@ n3 :> None
Other == n1 :> None @@ n2 :> None @@ n3 :> t2
All == {Both, Other}

\* Versions that list the first server alike; in one of them the second has no host.
Just == n1 :> t1 @@ n2 :> NoHost @@ n3 :> None
Kept == {Just, Both}

\* t2 is what is left of t1 without its port, api_url, fingerprint or token.
HostAlone == t1 :> {t2} @@ t2 :> {}

=============================================================================
