\* Lengths declared in advance, for a lineage with svns of different widths.
SPECIFICATION Spec
CONSTANT Requests <- MixedRequests
CHECK_DEADLOCK FALSE
INVARIANT SizesAreExact
