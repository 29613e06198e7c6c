-------------------------- MODULE MC_ResourceStore --------------------------
(***************************************************************************)
(* A small cluster for TLC: the core group and events.k8s.io both serve   *)
(* Event (the lower-cased kind collides), the core group serves Pod, and  *)
(* a CRD group serves Widget, which the typed informer factory does not   *)
(* know.                                                                   *)
(***************************************************************************)
EXTENDS ResourceStore, TLC

CONSTANTS core, events, crd, pod, event, widget, noGVR

MCGroupVersions == {core, events, crd}

MCStems == {pod, event, widget}

MCInitialServed == (core :> {pod, event}) @@ (events :> {event}) @@ (crd :> {widget})

\* ForResource succeeds for the built-in types only.
MCSupported == {g \in GVR : g.gv # crd}

=============================================================================
