\* Certificates and CSRs of every profile, and buffers of every size.
SPECIFICATION Spec
CONSTANT Requests <- CertRequests
\* A writer is dropped when it is done.
CHECK_DEADLOCK FALSE
INVARIANTS TypeOK SizesReachTheEnd SignedRangesAreFinal OutputIsComplete SkipsAreWide SizesAreExactForEqualSvns
