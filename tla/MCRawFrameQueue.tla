-------------------------- MODULE MCRawFrameQueue --------------------------
(* Small rings.  Frame sizes straddle the payload capacity of two, so that *)
(* one of the frames is refused as too large.                              *)
EXTENDS RawFrameQueue

MCSizeOf == <<1, 2, 0, 3, 2, 1, 2, 1>>
=============================================================================
