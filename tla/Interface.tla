------------------------------ MODULE Interface ------------------------------
(***************************************************************************)
(* What WireGuard::begin and WireGuard::end promise the application: the   *)
(* interface is up or down, going up may take the default route, and going *)
(* down gives it back to whoever held it, each in one step.  Lifecycle     *)
(* implements it in the many steps of the code.                            *)
(***************************************************************************)
CONSTANTS
    Netif,      \* who may hold the default route: nobody, this interface, others
    Tunnel      \* this interface

VARIABLES
    up,         \* begin has returned true, and end has not been called since
    route,      \* netif_default
    saved       \* who held the route when the interface last went up

vars == <<up, route, saved>>

TypeOK == up \in BOOLEAN /\ {route, saved} \subseteq Netif

Init ==
    /\ up = FALSE
    /\ route \in Netif \ {Tunnel}
    /\ saved = route

\* begin: routed through the tunnel, unless its endpoint is unspecified
Up ==
    /\ ~up
    /\ up' = TRUE
    /\ saved' = route
    /\ route' \in {route, Tunnel}

\* end: the route is back where it was, even if that is nowhere
Down ==
    /\ up
    /\ up' = FALSE
    /\ route' = saved
    /\ UNCHANGED saved

Next == Up \/ Down

Spec == Init /\ [][Next]_vars
=============================================================================
