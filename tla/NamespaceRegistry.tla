-------------------------- MODULE NamespaceRegistry --------------------------
(***************************************************************************)
(* What the namespace registry promises (spec.md 4.1): a tenant's backend  *)
(* handle is built by at most one construction at a time, a construction   *)
(* starts only for a tenant that has no handle, a handle appears only when *)
(* a construction completes, and only a release removes it.  A release     *)
(* never runs while a construction for the tenant is in flight.            *)
(***************************************************************************)
CONSTANTS
    Users,      \* tenants
    Handles,    \* backend handles
    NoHandle    \* no handle registered

VARIABLES
    backend,        \* backend[u]: the tenant's registered handle, or NoHandle
    constructing    \* the tenants whose construction is in flight

regVars == <<backend, constructing>>

Init ==
    /\ backend = [u \in Users |-> NoHandle]
    /\ constructing = {}

\* A caller found no handle and starts the one construction of the tenant.
BeginConstruction(u) ==
    /\ u \notin constructing
    /\ backend[u] = NoHandle
    /\ constructing' = constructing \cup {u}
    /\ UNCHANGED backend

\* The construction succeeds and registers its handle.
CompleteConstruction(u, h) ==
    /\ u \in constructing
    /\ constructing' = constructing \ {u}
    /\ backend' = [backend EXCEPT ![u] = h]

\* The construction fails (mount or constructor): no handle is registered.
FailConstruction(u) ==
    /\ u \in constructing
    /\ constructing' = constructing \ {u}
    /\ UNCHANGED backend

\* Teardown forgets the tenant's handle; on a tenant without one it is a
\* no-op.
Release(u) ==
    /\ u \notin constructing
    /\ backend' = [backend EXCEPT ![u] = NoHandle]
    /\ UNCHANGED constructing

Next ==
    \E u \in Users :
        \/ BeginConstruction(u)
        \/ \E h \in Handles : CompleteConstruction(u, h)
        \/ FailConstruction(u)
        \/ Release(u)

Spec == Init /\ [][Next]_regVars

=============================================================================
