\* Four updates, each stopped anywhere, on partitions of every shape.
SPECIFICATION Spec
CONSTANTS
    Geometries <- MCGeometries
    BR_BCT_MAX_COPIES = 4
    MaxUpdates = 4
INVARIANTS
    Bootable
    SuccessMeansFound
    NeverOlderThanReported
CHECK_DEADLOCK FALSE
