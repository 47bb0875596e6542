---------------------------- MODULE MCEventLoop ----------------------------
(* Two objects of two kinds, which have a reconciler worker each.          *)
EXTENDS EventLoop, TLC

CONSTANTS route, slice

MCKeys   == {route, slice}
MCKindOf == (route :> "HTTPRoute") @@ (slice :> "EndpointSlice")
=============================================================================
