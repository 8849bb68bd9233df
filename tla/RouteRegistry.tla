---------------------------- MODULE RouteRegistry ----------------------------
(***************************************************************************)
(* contracts/src/GatewayRouteRegistry.sol: the routes of the second        *)
(* router.  A route binds an id to a GenLayer contract, its method and two *)
(* schemas; these four values are one member of Bindings.                  *)
(***************************************************************************)
CONSTANTS
  Routes,           \* route ids
  Bindings,         \* what a route may be bound to
  RegistryOwners,
  Nobody            \* the zero address

ASSUME RegistryConstants == Nobody \notin RegistryOwners

VARIABLES
  registryOwner,
  routes            \* [registered ids -> the binding, and whether it is active]

registryVars == <<registryOwner, routes>>

RegistryInit ==
  /\ registryOwner \in RegistryOwners
  /\ routes = [r \in {} |-> <<>>]

IsNewRoute_Unchecked(r) == TRUE
IsNewRoute(r) == r \notin DOMAIN routes

RegisterRoute(caller, r, binding) ==
  /\ caller = registryOwner
  /\ IsNewRoute(r)
  /\ routes' = [q \in DOMAIN routes \cup {r} |->
                  IF q = r THEN [binding |-> binding, active |-> TRUE] ELSE routes[q]]
  /\ UNCHANGED registryOwner

SetRouteStatus(caller, r, active) ==
  /\ caller = registryOwner
  /\ r \in DOMAIN routes
  /\ routes' = [routes EXCEPT ![r].active = active]
  /\ UNCHANGED registryOwner

TransferRegistry(caller, newOwner) ==
  /\ caller = registryOwner
  /\ newOwner # Nobody
  /\ registryOwner' = newOwner
  /\ UNCHANGED routes

RegistryNext ==
  \E caller \in RegistryOwners, r \in Routes :
    \/ \E b \in Bindings : RegisterRoute(caller, r, b)
    \/ \E active \in BOOLEAN : SetRouteStatus(caller, r, active)
    \/ \E o \in RegistryOwners : TransferRegistry(caller, o)
=============================================================================
