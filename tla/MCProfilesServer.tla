-------------------------- MODULE MCProfilesServer -------------------------
(* ProfilesServer for TLC: requests that share mappings, two paths with one *)
(* basename, a path that is not a file, and samples that share a stack.     *)
EXTENDS ProfilesServer

CONSTANTS p1, p2, p3, vdso, n1, n2

MCBaseOf == (p1 :> n1) @@ (p2 :> n1) @@ (p3 :> n2) @@ (vdso :> NoName)

Sample(stack, thread, times, sum) ==
    [stack |-> stack, thread |-> thread, times |-> times, sum |-> sum]

NoSamples == <<>>

SharedStack == <<Sample(1, "t", 1, 0), Sample(1, "u", 2, 0), Sample(2, "u", 0, 0),
                 Sample(0, "u", 5, 0)>>

MCRequests ==
    {[mappings |-> <<p1, vdso, p3>>, samples |-> NoSamples],
     [mappings |-> <<p3, p2>>, samples |-> NoSamples],
     [mappings |-> <<p1>>, samples |-> SharedStack]}
============================================================================
