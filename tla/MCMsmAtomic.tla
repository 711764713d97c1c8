---------------------------- MODULE MCMsmAtomic -----------------------------
(* Small instances of MsmAtomic: two CRTCs and a plane.                    *)
EXTENDS MsmAtomic

Crtcs == {"crtc0", "crtc1"}
Planes == {"plane0"}
Indices == [c \in Crtcs |-> IF c = "crtc0" THEN 0 ELSE 1]

Req(crtcs, planes, nonblock, locks) ==
    [crtcs |-> crtcs, planes |-> planes, nonblock |-> nonblock, locks |-> locks]

\* A page flip without a connector, nonblocking; a flip of the other CRTC that
\* borrows the plane of the first, blocking; a modeset of both; a connector property.
Flip == Req({"crtc0"}, {"plane0"}, TRUE, <<"crtc0", "plane0">>)
Borrow == Req({"crtc1"}, {"plane0"}, FALSE, <<"crtc1", "plane0">>)
Modeset == Req({"crtc0", "crtc1"}, {}, FALSE, <<Conn, "crtc1", "crtc0">>)
Property == Req({}, {}, TRUE, <<Conn>>)

Requests == {Flip, Borrow, Modeset, Property}
=============================================================================
