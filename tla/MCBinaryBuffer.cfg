\* size_t of 13 bits; writes explored while the buffer holds at most 1024
\* bytes, so that no size computation wraps: capacities up to 4096 arise.
CONSTANTS
    Width = 13
    Capacities = {0, 1, 200}
    Lengths = {0, 1, 3, 200}
    MaxSize = 1024

SPECIFICATION Spec

INVARIANT NoOverrun

