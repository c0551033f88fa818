--------------------------- MODULE MCFillEngine ---------------------------
(* Instances of the fill engine for TLC: a fill of a single sector and one   *)
(* larger than the device, of two sizes of device.                           *)
EXTENDS FillEngine

\* No hop, so that an access enqueues at once, and one that outlasts a period.
MCHops == {0, 2}

\* For Capacity = 3 and Capacity = 2.
MCFillSizes == {1, 4}
MCFillSizesOfSmall == {1, 3}
=============================================================================
